---- MODULE Spec2Model ----
(***************************************************************************)
(* Model of the aggregation pipeline of pullus-bi-dashboard: the parsing   *)
(* helpers (helpers.py), the price normalizers and the four aggregators    *)
(* (weekly_purchase.py, doc_price.py, competitor_selling.py,               *)
(* competitor_buying.py), and the run over the four report domains with    *)
(* its skip state (dashboard.py).                                          *)
(*                                                                         *)
(* Cell texts are sequences of one-character strings, so that strip,       *)
(* replace, split, float() and strptime() are computed on characters.      *)
(* Python floats are modelled as exact fixed-point numbers: an integer     *)
(* count of 1/Scale units.  round(x, k) is round-half-to-even on the exact *)
(* value.  An optional value is a sequence: <<>> is None, <<v>> is v.      *)
(***************************************************************************)
EXTENDS Integers, Sequences, FiniteSets, TLC

VARIABLES domain,        \* the report domain the run is about
          current_year,  \* datetime.now().year of the run
          rows,          \* the data rows of the domain's source sheet
          pc,            \* "idle": no run in progress; "done": the run has aggregated
          out,           \* what the run computed (None before)
          hash_file,     \* the content of data_hashes.json (no key: no file yet)
          dashboard,     \* the report sheets of the dashboard spreadsheet
          run            \* the local variables of dashboard.main (None: no run)

vars == <<domain, current_year, rows, pc, out, hash_file, dashboard, run>>

\* what belongs to dashboard.main alone
mainVars == <<hash_file, dashboard, run>>

None == <<>>
Some(v) == <<v>>
Val(x) == x[1]

(***************************************************************************)
(* Numbers.                                                                *)
(***************************************************************************)
\* floats are counted in hundredths
Scale == 10 * 10

Abs(n) == IF n < 0 THEN -n ELSE n

RECURSIVE Pow10(_)
Pow10(k) == IF k = 0 THEN 1 ELSE 10 * Pow10(k - 1)

\* the integer nearest to n / d (d > 0), ties to the even integer: Python's round()
RoundDiv(n, d) ==
    LET q == n \div d
        r == n % d
    IN  IF 2 * r < d THEN q
        ELSE IF 2 * r > d THEN q + 1
        ELSE IF q % 2 = 0 THEN q ELSE q + 1

\* int(x) of a float x: truncation toward zero
TruncInt(x) == IF x >= 0 THEN x \div Scale ELSE -((-x) \div Scale)

RECURSIVE SumSeq(_)
SumSeq(s) == IF s = <<>> THEN 0 ELSE Head(s) + SumSeq(Tail(s))

RECURSIVE MinSeq(_)
MinSeq(s) == IF Len(s) = 1 THEN s[1]
             ELSE LET Least(x, m) == IF x <= m THEN x ELSE m
                  IN  Least(Head(s), MinSeq(Tail(s)))

RECURSIVE MaxSeq(_)
MaxSeq(s) == IF Len(s) = 1 THEN s[1]
             ELSE LET Greatest(x, m) == IF x >= m THEN x ELSE m
                  IN  Greatest(Head(s), MaxSeq(Tail(s)))

\* round(n / d, k) for the float n / d (d > 0) and k in 0..2 decimals
RoundTo(n, d, k) ==
    LET step == Scale \div Pow10(k)
    IN  RoundDiv(n, d * step) * step

\* round(sum(xs) / len(xs), 0) of a non-empty list of floats
RoundMean0(xs) == RoundTo(SumSeq(xs), Len(xs), 0)

\* round((a - b) / b * 100, 1) for b # 0: a percentage, as a float (the tenths
\* of a percent nearest to (a - b) * 1000 / b)
PctChange(a, b) ==
    (IF b > 0 THEN RoundDiv((a - b) * 1000, b) ELSE RoundDiv((b - a) * 1000, -b))
    * (Scale \div 10)

(***************************************************************************)
(* Text.                                                                   *)
(***************************************************************************)
Digits == {"0", "1", "2", "3", "4", "5", "6", "7", "8", "9"}

DigitVal(c) ==
    CASE c = "0" -> 0 [] c = "1" -> 1 [] c = "2" -> 2 [] c = "3" -> 3
      [] c = "4" -> 4 [] c = "5" -> 5 [] c = "6" -> 6 [] c = "7" -> 7
      [] c = "8" -> 8 [] c = "9" -> 9

RECURSIVE Num(_)
\* the value of a sequence of digits
Num(s) == IF s = <<>> THEN 0
          ELSE 10 * Num(SubSeq(s, 1, Len(s) - 1)) + DigitVal(s[Len(s)])

AllDigits(s) == \A k \in 1..Len(s) : s[k] \in Digits

Upper == {"A", "B", "C", "D", "E", "F", "G", "H", "I", "J", "K", "L", "M",
          "N", "O", "P", "Q", "R", "S", "T", "U", "V", "W", "X", "Y", "Z"}

LowerOf(c) ==
    CASE c = "A" -> "a" [] c = "B" -> "b" [] c = "C" -> "c" [] c = "D" -> "d"
      [] c = "E" -> "e" [] c = "F" -> "f" [] c = "G" -> "g" [] c = "H" -> "h"
      [] c = "I" -> "i" [] c = "J" -> "j" [] c = "K" -> "k" [] c = "L" -> "l"
      [] c = "M" -> "m" [] c = "N" -> "n" [] c = "O" -> "o" [] c = "P" -> "p"
      [] c = "Q" -> "q" [] c = "R" -> "r" [] c = "S" -> "s" [] c = "T" -> "t"
      [] c = "U" -> "u" [] c = "V" -> "v" [] c = "W" -> "w" [] c = "X" -> "x"
      [] c = "Y" -> "y" [] c = "Z" -> "z" [] OTHER -> c

\* str.lower()
Lower(s) == [k \in 1..Len(s) |-> LowerOf(s[k])]

RECURSIVE LStrip(_)
LStrip(s) == IF s # <<>> /\ Head(s) = " " THEN LStrip(Tail(s)) ELSE s

RECURSIVE RStrip(_)
RStrip(s) == IF s # <<>> /\ s[Len(s)] = " " THEN RStrip(SubSeq(s, 1, Len(s) - 1)) ELSE s

\* str.strip()
Strip(s) == RStrip(LStrip(s))

\* str.replace(c, "")
Remove(s, c) == SelectSeq(s, LAMBDA x : x # c)

\* the first index at which sep occurs in s, 0 if none
Find(s, sep) ==
    LET First(hits) == IF hits = {} THEN 0 ELSE CHOOSE i \in hits : \A j \in hits : i <= j
    IN  First({i \in 1..(Len(s) - Len(sep) + 1) : SubSeq(s, i, i + Len(sep) - 1) = sep})

\* sep in s
Contains(s, sep) == Find(s, sep) # 0

RECURSIVE Split(_, _)
\* str.split(sep)
Split(s, sep) ==
    LET At(i) == IF i = 0 THEN <<s>>
                 ELSE <<SubSeq(s, 1, i - 1)>> \o Split(SubSeq(s, i + Len(sep), Len(s)), sep)
    IN  At(Find(s, sep))

\* float(s): [ok, val]; the grammar over the model's characters is
\* [sign] digits [. [digits]] | [sign] . digits, surrounded by whitespace
Float(s) ==
    LET Signed(neg, mag) == IF neg THEN -mag ELSE mag
        Value(neg, ip, fp) ==
            IF AllDigits(ip) /\ AllDigits(fp) /\ Len(ip) + Len(fp) > 0
            THEN [ok |-> TRUE,
                  val |-> Signed(neg, Num(ip) * Scale + (Num(fp) * Scale) \div Pow10(Len(fp)))]
            ELSE [ok |-> FALSE, val |-> 0]
        Point(neg, u, dot) ==
            Value(neg, IF dot = 0 THEN u ELSE SubSeq(u, 1, dot - 1),
                       IF dot = 0 THEN <<>> ELSE SubSeq(u, dot + 1, Len(u)))
        Number(neg, u) == Point(neg, u, Find(u, <<".">>))
        Text(t) == Number(t # <<>> /\ Head(t) = "-",
                          IF t # <<>> /\ Head(t) \in {"-", "+"} THEN Tail(t) ELSE t)
    IN  Text(Strip(s))

\* A value that is no str is a sequence that starts with the name of its type,
\* followed by the characters of str(value) for None and int and by the content
\* for bytes; a str never holds an element of more than one character.
PyTypes == {"NoneType", "int", "bytes"}

\* isinstance(val, str)
IsStr(val) == val = <<>> \/ Head(val) \notin PyTypes

\* str(val)
PyStr(val) ==
    IF IsStr(val) THEN val
    ELSE IF Head(val) = "bytes" THEN <<"b", "'">> \o Tail(val) \o <<"'">>
    ELSE Tail(val)

\* the outcome of a call that an exception of type e leaves
Raised(e) == <<"raised", e>>

\* a safe_float that keeps the thousands separators
safe_float_with_commas(val) ==
    LET Result(f) == IF f.ok THEN f.val ELSE 0
    IN  Result(Float(Strip(val)))

\* float(str(val).replace(",", "").strip()), 0.0 on ValueError
safe_float(val) ==
    LET Result(f) == IF f.ok THEN f.val ELSE 0
    IN  Result(Float(Strip(Remove(PyStr(val), ","))))

(***************************************************************************)
(* Price normalizers.                                                      *)
(***************************************************************************)
\* the parts without the discard of the non-positive ones
AllParts(parts) == [k \in 1..Len(parts) |-> safe_float(parts[k])]

\* [safe_float(p) for p in parts if safe_float(p) > 0]
PositiveParts(parts) ==
    SelectSeq([k \in 1..Len(parts) |-> safe_float(parts[k])], LAMBDA v : v > 0)

\* competitor selling: '3900/4000' is averaged
parse_price(val) ==
    IF val = <<>> \/ Strip(val) = <<>> THEN None
    ELSE LET Mean(parts) == IF parts # <<>> THEN Some(RoundMean0(parts)) ELSE None
             Single(p) == IF p > 0 THEN Some(p) ELSE None
             Price(v) == IF Contains(v, <<"/">>)
                         THEN Mean(PositiveParts(Split(v, <<"/">>)))
                         ELSE Single(safe_float(v))
         IN  Price(Strip(val))

\* competitor buying: '3,300 - 3,500' is averaged
parse_buying_price(val) ==
    IF val = <<>> \/ Strip(val) = <<>> THEN None
    ELSE LET Mean(parts) == IF parts # <<>> THEN Some(RoundMean0(parts)) ELSE None
             Single(p) == IF p > 0 THEN Some(p) ELSE None
             Price(v) == IF Contains(v, <<" ", "-", " ">>)
                         THEN Mean(PositiveParts(Split(v, <<" ", "-", " ">>)))
                         ELSE Single(safe_float(v))
         IN  Price(Remove(Strip(val), ","))

(***************************************************************************)
(* Calendar: datetime values are dates at midnight, written yyyymmdd.      *)
(***************************************************************************)
DateOf(y, m, d) == y * 10000 + m * 100 + d
YearOf(dt) == dt \div 10000
MonthOf(dt) == (dt \div 100) % 100
DayOf(dt) == dt % 100

IsLeap(y) == y % 4 = 0 /\ (y % 100 # 0 \/ y % 400 = 0)

DaysInMonth(y, m) ==
    IF m = 2 THEN (IF IsLeap(y) THEN 29 ELSE 28)
    ELSE IF m \in {4, 6, 9, 11} THEN 30 ELSE 31

RECURSIVE DaysBeforeMonth(_, _)
DaysBeforeMonth(y, m) ==
    IF m = 1 THEN 0 ELSE DaysBeforeMonth(y, m - 1) + DaysInMonth(y, m - 1)

\* date.toordinal(): 1 is 0001-01-01, a Monday
Ordinal(dt) ==
    LET y == YearOf(dt) - 1
    IN  y * 365 + y \div 4 - y \div 100 + y \div 400
        + DaysBeforeMonth(YearOf(dt), MonthOf(dt)) + DayOf(dt)

\* the ordinal of the Monday of ISO week 1 of a year
IsoWeek1Monday(year) ==
    LET firstday == Ordinal(DateOf(year, 1, 1))
        firstweekday == (firstday + 6) % 7
        week1monday == firstday - firstweekday
    IN  IF firstweekday > 3 THEN week1monday + 7 ELSE week1monday

\* date.isocalendar()[:2] as <<iso_year, iso_week>>
isocalendar(dt) ==
    LET Week(year, today, week) ==
            IF week < 0
            THEN <<year - 1, (today - IsoWeek1Monday(year - 1)) \div 7 + 1>>
            ELSE IF week >= 52 /\ today >= IsoWeek1Monday(year + 1)
            THEN <<year + 1, 1>>
            ELSE <<year, week + 1>>
    IN  Week(YearOf(dt), Ordinal(dt), (Ordinal(dt) - IsoWeek1Monday(YearOf(dt))) \div 7)

\* datetime(y, m, d) is a value
ValidDate(y, m, d) == y >= 1 /\ m \in 1..12 /\ d >= 1 /\ d <= DaysInMonth(y, m)


(***************************************************************************)
(* parse_date: datetime.strptime over the ten formats, first success wins. *)
(***************************************************************************)
\* the month names of %b and %B, lower case (the match ignores case)
MonthAbbr ==
    <<<<"j", "a", "n">>,
      <<"f", "e", "b">>,
      <<"m", "a", "r">>,
      <<"a", "p", "r">>,
      <<"m", "a", "y">>,
      <<"j", "u", "n">>,
      <<"j", "u", "l">>,
      <<"a", "u", "g">>,
      <<"s", "e", "p">>,
      <<"o", "c", "t">>,
      <<"n", "o", "v">>,
      <<"d", "e", "c">>>>

MonthFull ==
    <<<<"j", "a", "n", "u", "a", "r", "y">>,
      <<"f", "e", "b", "r", "u", "a", "r", "y">>,
      <<"m", "a", "r", "c", "h">>,
      <<"a", "p", "r", "i", "l">>,
      <<"m", "a", "y">>,
      <<"j", "u", "n", "e">>,
      <<"j", "u", "l", "y">>,
      <<"a", "u", "g", "u", "s", "t">>,
      <<"s", "e", "p", "t", "e", "m", "b", "e", "r">>,
      <<"o", "c", "t", "o", "b", "e", "r">>,
      <<"n", "o", "v", "e", "m", "b", "e", "r">>,
      <<"d", "e", "c", "e", "m", "b", "e", "r">>>>

\* the formats of parse_date in the order they are tried; a format is its
\* directives and literal characters
\* the formats with the day-first numeric pattern before the month-first one
DateFormatsDayFirst ==
    << <<"%d", "-", "%b", "-", "%Y">>,
       <<"%Y", "-", "%m", "-", "%d">>,
       <<"%d", "/", "%m", "/", "%Y">>,
       <<"%m", "/", "%d", "/", "%Y">>,
       <<"%d", " ", "%b", " ", "%Y">>,
       <<"%b", " ", "%d", ",", " ", "%Y">>,
       <<"%Y", "/", "%m", "/", "%d">>,
       <<"%d", "-", "%m", "-", "%Y">>,
       <<"%d", " ", "%B", " ", "%Y">>,
       <<"%B", " ", "%d", ",", " ", "%Y">> >>

DateFormats ==
    << <<"%d", "-", "%b", "-", "%Y">>,
       <<"%Y", "-", "%m", "-", "%d">>,
       <<"%m", "/", "%d", "/", "%Y">>,
       <<"%d", "/", "%m", "/", "%Y">>,
       <<"%d", " ", "%b", " ", "%Y">>,
       <<"%b", " ", "%d", ",", " ", "%Y">>,
       <<"%Y", "/", "%m", "/", "%d">>,
       <<"%d", "-", "%m", "-", "%Y">>,
       <<"%d", " ", "%B", " ", "%Y">>,
       <<"%B", " ", "%d", ",", " ", "%Y">> >>

DigitAt(s, p) == p <= Len(s) /\ s[p] \in Digits

\* one or two digits at p whose value lies in 1..top (no "00", no "0")
NumberField(s, p, top) ==
    (IF DigitAt(s, p) /\ DigitAt(s, p + 1) /\ Num(SubSeq(s, p, p + 1)) \in 1..top
     THEN {<<p + 2, Num(SubSeq(s, p, p + 1))>>} ELSE {})
    \cup
    (IF DigitAt(s, p) /\ s[p] # "0" THEN {<<p + 1, DigitVal(s[p])>>} ELSE {})

NameField(names, s, p) ==
    {<<p + Len(names[m]), m>> :
        m \in {k \in 1..12 : /\ p + Len(names[k]) - 1 <= Len(s)
                             /\ Lower(SubSeq(s, p, p + Len(names[k]) - 1)) = names[k]}}

\* the ways directive or literal tok matches s from position p: <<next position, value>>
Field(tok, s, p) ==
    CASE tok = "%Y" ->
            IF \A k \in p..(p + 3) : DigitAt(s, k)
            THEN {<<p + 4, Num(SubSeq(s, p, p + 3))>>} ELSE {}
      [] tok = "%m" -> NumberField(s, p, 12)
      [] tok = "%d" ->
            NumberField(s, p, 31)
            \cup (IF p <= Len(s) /\ s[p] = " " /\ DigitAt(s, p + 1) /\ s[p + 1] # "0"
                  THEN {<<p + 2, DigitVal(s[p + 1])>>} ELSE {})
      [] tok = "%b" -> NameField(MonthAbbr, s, p)
      [] tok = "%B" -> NameField(MonthFull, s, p)
      [] tok = " " ->
            {<<q, 0>> : q \in {k \in (p + 1)..(Len(s) + 1) : \A j \in p..(k - 1) : s[j] = " "}}
      [] OTHER -> IF p <= Len(s) /\ s[p] = tok THEN {<<p + 1, 0>>} ELSE {}

PutField(acc, tok, v) ==
    CASE tok = "%Y" -> [acc EXCEPT !.Y = v]
      [] tok \in {"%m", "%b", "%B"} -> [acc EXCEPT !.m = v]
      [] tok = "%d" -> [acc EXCEPT !.d = v]
      [] OTHER -> acc

RECURSIVE Parses(_, _, _, _)
\* the field values of every match of fmt that consumes all of s from p
Parses(fmt, s, p, acc) ==
    IF fmt = <<>> THEN (IF p = Len(s) + 1 THEN {acc} ELSE {})
    ELSE UNION {Parses(Tail(fmt), s, r[1], PutField(acc, Head(fmt), r[2])) :
                    r \in Field(Head(fmt), s, p)}

\* datetime.strptime(s, fmt): the datetime, or None for ValueError
strptime(s, fmt) ==
    LET Date(f) == IF ValidDate(f.Y, f.m, f.d) THEN Some(DateOf(f.Y, f.m, f.d)) ELSE None
        Match(ps) == IF ps = {} THEN None ELSE Date(CHOOSE f \in ps : TRUE)
    IN  Match(Parses(fmt, s, 1, [Y |-> 0, m |-> 0, d |-> 0]))

RECURSIVE TryFormatsBackwards(_, _)
\* the formats tried from the last to the first
TryFormatsBackwards(s, k) ==
    IF k > Len(DateFormats) THEN None
    ELSE LET OrNext(r) == IF r # None THEN r ELSE TryFormatsBackwards(s, k + 1)
         IN  OrNext(strptime(s, DateFormats[Len(DateFormats) + 1 - k]))

RECURSIVE TryFormats(_, _)
\* the loop of parse_date from format k on
TryFormats(s, k) ==
    IF k > Len(DateFormats) THEN None
    ELSE LET OrNext(r) == IF r # None THEN r ELSE TryFormats(s, k + 1)
         IN  OrNext(strptime(s, DateFormats[k]))

\* val.strip() of a value without strip raises AttributeError in every
\* iteration, which is caught; bytes have strip, and strptime raises TypeError
\* for them, which is not caught
parse_date(val) ==
    IF IsStr(val) THEN TryFormats(Strip(val), 1)
    ELSE IF Head(val) = "bytes" THEN Raised("TypeError")
    ELSE None


(***************************************************************************)
(* The current-year gate and the bucket order shared by the aggregators.   *)
(***************************************************************************)
\* a gate that forgets the year test
KeptAnyYear(dt, year) == dt # None

\* not (dt is None or dt.year != current_year)
Kept(dt, year) == dt # None /\ YearOf(Val(dt)) = year

\* the reverse order
KeyGreater(a, b) == a[1] > b[1] \/ (a[1] = b[1] /\ a[2] > b[2])

\* tuple order of (iso_year, iso_week) keys
KeyLess(a, b) == a[1] < b[1] \/ (a[1] = b[1] /\ a[2] < b[2])

RECURSIVE SortedKeys(_)
\* the keys of sorted(weeks.items())
SortedKeys(S) ==
    IF S = {} THEN <<>>
    ELSE LET Then(m) == <<m>> \o SortedKeys(S \ {m})
         IN  Then(CHOOSE m \in S : \A k \in S : k = m \/ KeyLess(m, k))

SeqToSet(s) == {s[k] : k \in 1..Len(s)}

\* a dict whose entry is created anew at every access
EntryAlwaysNew(weeks, key, default) == default

\* weeks[key] of a defaultdict: the entry, created from its default when missing
Entry(weeks, key, default) == IF key \in DOMAIN weeks THEN weeks[key] ELSE default

\* weeks after weeks[key] = val
Store(weeks, key, val) ==
    [k \in (DOMAIN weeks) \cup {key} |-> IF k = key THEN val ELSE weeks[k]]

(***************************************************************************)
(* Weekly purchase: aggregate_weekly.  A row is [date, birds, chicken_wt,  *)
(* gizzard_wt], the cells of columns COL_DATE, COL_BIRDS, COL_CHICKEN_WT   *)
(* and COL_GIZZARD_WT.                                                     *)
(***************************************************************************)
RECURSIVE PurchaseWeeks(_, _, _)
\* the first loop of aggregate_weekly: the weeks dict after the rows of data
PurchaseWeeks(data, year, weeks) ==
    IF data = <<>> THEN weeks
    ELSE LET Add(row, dt, old) ==
                 [birds |-> old.birds
                             + (IF row.birds # <<>>
                                THEN TruncInt(safe_float(row.birds)) ELSE 0),
                  chicken_wt |-> old.chicken_wt + safe_float(row.chicken_wt),
                  gizzard_wt |-> old.gizzard_wt + safe_float(row.gizzard_wt),
                  dates |-> Append(old.dates, dt)]
             Bucket(row, dt, key) ==
                 Store(weeks, key,
                       Add(row, dt, Entry(weeks, key,
                                          [birds |-> 0, chicken_wt |-> 0, gizzard_wt |-> 0,
                                           dates |-> <<>>])))
             Row(row, dt) ==
                 IF ~Kept(dt, year) THEN PurchaseWeeks(Tail(data), year, weeks)
                 ELSE PurchaseWeeks(Tail(data), year,
                                    Bucket(row, Val(dt), isocalendar(Val(dt))))
         IN  Row(Head(data), parse_date(Head(data).date))

\* the number of rows instead of the number of days
PurchaseRowCount(dates) == Len(dates)

\* len(set(d.date() for d in dates))
PurchaseDays(dates) == Cardinality(SeqToSet(dates))

\* one row of result, before the week-over-week fields
PurchaseRow(key, vals) ==
    LET purchase_days == PurchaseDays(vals.dates)
        total_wt == RoundTo(vals.chicken_wt + vals.gizzard_wt, 1, 2)
    IN  [year |-> key[1], week |-> key[2],
         start |-> MinSeq(vals.dates), end |-> MaxSeq(vals.dates),
         purchase_days |-> purchase_days,
         birds |-> vals.birds,
         chicken_wt |-> RoundTo(vals.chicken_wt, 1, 2),
         gizzard_wt |-> RoundTo(vals.gizzard_wt, 1, 2),
         total_wt |-> total_wt,
         avg_birds_day |-> RoundTo(vals.birds * Scale, purchase_days, 1),
         avg_wt_day |-> RoundTo(total_wt, purchase_days, 2)]

\* round((cur - prev) / prev * 100, 1) if prev else None
Wow(cur, prev) == IF prev # 0 THEN Some(PctChange(cur, prev)) ELSE None

\* a second loop that compares every row with the first row
PurchaseWowFromFirst(result) ==
    [i \in 1..Len(result) |->
        result[i] @@
        (IF i = 1 THEN [birds_wow |-> None, wt_wow |-> None]
         ELSE [birds_wow |-> Wow(result[i].avg_birds_day, result[1].avg_birds_day),
               wt_wow |-> Wow(result[i].avg_wt_day, result[1].avg_wt_day)])]

\* the second loop of aggregate_weekly: birds_wow and wt_wow of every row
PurchaseWow(result) ==
    [i \in 1..Len(result) |->
        result[i] @@
        (IF i = 1 THEN [birds_wow |-> None, wt_wow |-> None]
         ELSE [birds_wow |-> Wow(result[i].avg_birds_day, result[i - 1].avg_birds_day),
               wt_wow |-> Wow(result[i].avg_wt_day, result[i - 1].avg_wt_day)])]

aggregate_weekly(data, year) ==
    LET Result(weeks, keys) ==
            PurchaseWow([i \in 1..Len(keys) |-> PurchaseRow(keys[i], weeks[keys[i]])])
        Sorted(weeks) == Result(weeks, SortedKeys(DOMAIN weeks))
    IN  Sorted(PurchaseWeeks(data, year, <<>>))

\* avg_wow_pct of build_dashboard of weekly purchase: prv is None or a row, the
\* result None for "N/A".  The averages cur[total_key] / cur["purchase_days"]
\* are not rounded: (cur_avg - prv_avg) / prv_avg is the exact quotient of
\* cur[total_key] * prv["purchase_days"] - prv[total_key] * cur["purchase_days"]
\* by prv[total_key] * cur["purchase_days"].
avg_wow_pct(cur, prv, total_key) ==
    IF prv = None THEN None
    ELSE IF Val(prv)[total_key] = 0 THEN None
    ELSE Some(PctChange(cur[total_key] * Val(prv).purchase_days,
                        Val(prv)[total_key] * cur.purchase_days))

\* the Avg/Day WoW cards of build_dashboard of weekly purchase, for weeks # []
purchase_cards(weeks) ==
    LET Cards(latest, prev) ==
            [birds_wow |-> avg_wow_pct(latest, prev, "birds"),
             chicken_wow |-> avg_wow_pct(latest, prev, "chicken_wt"),
             gizzard_wow |-> avg_wow_pct(latest, prev, "gizzard_wt")]
    IN  Cards(weeks[Len(weeks)],
              IF Len(weeks) > 1 THEN Some(weeks[Len(weeks) - 1]) ELSE None)


(***************************************************************************)
(* DOC price: aggregate_weekly_prices.  A row is [date, prices]: row[0]    *)
(* and the supplier cells row[1:].                                         *)
(***************************************************************************)
\* the supplier prices of a row without the test p > 0
DayPricesOfAllCells(cells) == [k \in 1..Len(cells) |-> safe_float(cells[k])]

\* [p for val in row[1:] if (p := safe_float(val)) > 0]
DayPrices(cells) ==
    SelectSeq([k \in 1..Len(cells) |-> safe_float(cells[k])], LAMBDA v : v > 0)

RECURSIVE PriceWeeks(_, _, _)
\* the first loop of aggregate_weekly_prices; a daily average sum / len is kept
\* exactly, as the pair <<sum, len>>
PriceWeeks(data, year, weeks) ==
    IF data = <<>> THEN weeks
    ELSE LET Add(dt, day_prices, old) ==
                 [dates |-> Append(old.dates, dt),
                  prices |-> Append(old.prices,
                                    [avg |-> <<SumSeq(day_prices), Len(day_prices)>>,
                                     min |-> MinSeq(day_prices),
                                     max |-> MaxSeq(day_prices)])]
             Bucket(dt, day_prices, key) ==
                 Store(weeks, key,
                       Add(dt, day_prices, Entry(weeks, key, [prices |-> <<>>, dates |-> <<>>])))
             Row(dt, day_prices) ==
                 IF ~Kept(dt, year) \/ day_prices = <<>>
                 THEN PriceWeeks(Tail(data), year, weeks)
                 ELSE PriceWeeks(Tail(data), year,
                                 Bucket(Val(dt), day_prices, isocalendar(Val(dt))))
         IN  Row(parse_date(Head(data).date), DayPrices(Head(data).prices))

RECURSIVE FracSum(_)
\* the exact sum of a list of fractions <<n, d>>, as a fraction
FracSum(fs) ==
    IF fs = <<>> THEN <<0, 1>>
    ELSE LET Plus(f, rest) == <<f[1] * rest[2] + rest[1] * f[2], f[2] * rest[2]>>
         IN  Plus(Head(fs), FracSum(Tail(fs)))

\* one row of result, before the week-over-week fields
PriceRow(key, vals) ==
    LET Row(total, week_min, week_max) ==
            [year |-> key[1], week |-> key[2],
             start |-> MinSeq(vals.dates), end |-> MaxSeq(vals.dates),
             entries |-> Len(vals.prices),
             avg_price |-> RoundTo(total[1], total[2] * Len(vals.prices), 0),
             min_price |-> week_min,
             max_price |-> week_max,
             spread |-> RoundTo(week_max - week_min, 1, 0)]
    IN  Row(FracSum([k \in 1..Len(vals.prices) |-> vals.prices[k].avg]),
            MinSeq([k \in 1..Len(vals.prices) |-> vals.prices[k].min]),
            MaxSeq([k \in 1..Len(vals.prices) |-> vals.prices[k].max]))

\* a second loop that gives the first row a delta of zero
PriceWowZeroFirst(result) ==
    [i \in 1..Len(result) |->
        result[i] @@
        (IF i = 1 THEN [wow_pct |-> Some(0), wow_abs |-> Some(0)]
         ELSE IF result[i - 1].avg_price # 0
         THEN [wow_pct |-> Some(PctChange(result[i].avg_price, result[i - 1].avg_price)),
               wow_abs |-> Some(RoundTo(result[i].avg_price - result[i - 1].avg_price, 1, 0))]
         ELSE [wow_pct |-> None, wow_abs |-> None])]

\* the second loop of aggregate_weekly_prices: wow_pct and wow_abs of every row
PriceWow(result) ==
    [i \in 1..Len(result) |->
        result[i] @@
        (IF i = 1 THEN [wow_pct |-> None, wow_abs |-> None]
         ELSE IF result[i - 1].avg_price # 0
         THEN [wow_pct |-> Some(PctChange(result[i].avg_price, result[i - 1].avg_price)),
               wow_abs |-> Some(RoundTo(result[i].avg_price - result[i - 1].avg_price, 1, 0))]
         ELSE [wow_pct |-> None, wow_abs |-> None])]

aggregate_weekly_prices(data, year) ==
    LET Result(weeks, keys) ==
            PriceWow([i \in 1..Len(keys) |-> PriceRow(keys[i], weeks[keys[i]])])
        Sorted(weeks) == Result(weeks, SortedKeys(DOMAIN weeks))
    IN  Sorted(PriceWeeks(data, year, <<>>))

\* the last index at which v stands in vals
LastIndexOf(vals, v) ==
    CHOOSE i \in DOMAIN vals : vals[i] = v /\ \A j \in DOMAIN vals : vals[j] = v => j <= i

\* the index of next(w for w in weeks if w[field] == v): the first one
FirstIndexOf(vals, v) ==
    CHOOSE i \in DOMAIN vals : vals[i] = v /\ \A j \in DOMAIN vals : vals[j] = v => i <= j

\* the year-to-date figures of build_dashboard of DOC price, for weeks # []
doc_summary(weeks) ==
    LET Figures(all_maxs, all_mins, ytd_high, ytd_low) ==
            [ytd_high |-> ytd_high,
             ytd_low |-> ytd_low,
             ytd_high_week |-> weeks[FirstIndexOf(all_maxs, ytd_high)],
             ytd_low_week |-> weeks[FirstIndexOf(all_mins, ytd_low)]]
        Extremes(all_maxs, all_mins) ==
            Figures(all_maxs, all_mins, MaxSeq(all_maxs), MinSeq(all_mins))
    IN  Extremes([i \in DOMAIN weeks |-> weeks[i].max_price],
                 [i \in DOMAIN weeks |-> weeks[i].min_price])


(***************************************************************************)
(* Competitor selling: fetch_competitor_data, aggregate_by_date_location   *)
(* and the summary figures of build_dashboard.  The sheet has one list of  *)
(* rows per tab; a row is [date, brand] and one cell per product column.   *)
(***************************************************************************)
\* the characters of the model in code point order (str comparison)
CharOrder ==
    <<" ", ",", "-", ".", "/", "0", "1", "2", "3", "4", "5", "6", "7",
      "8", "9", "A", "B", "C", "D", "E", "F", "G", "H", "I", "J", "K",
      "L", "M", "N", "O", "P", "Q", "R", "S", "T", "U", "V", "W", "X",
      "Y", "Z", "_", "a", "b", "c", "d", "e", "f", "g", "h", "i", "j",
      "k", "l", "m", "n", "o", "p", "q", "r", "s", "t", "u", "v", "w",
      "x", "y", "z">>

Code(c) == CHOOSE i \in 1..Len(CharOrder) : CharOrder[i] = c

RECURSIVE TextLess(_, _)
\* a < b of two str
TextLess(a, b) ==
    IF b = <<>> THEN FALSE
    ELSE IF a = <<>> THEN TRUE
    ELSE IF Head(a) # Head(b) THEN Code(Head(a)) < Code(Head(b))
    ELSE TextLess(Tail(a), Tail(b))

PRODUCTS == <<"Whole Chicken", "Gizzard">>

ProductSet == SeqToSet(PRODUCTS)

T_Abuja_Entry == <<"A", "b", "u", "j", "a", "_", "E", "n", "t", "r", "y">>
T_Kano_Entry == <<"K", "a", "n", "o", "_", "E", "n", "t", "r", "y">>
T_Kaduna_Entry == <<"K", "a", "d", "u", "n", "a", "_", "E", "n", "t", "r", "y">>
T_Abuja == <<"A", "b", "u", "j", "a">>
T_Kano == <<"K", "a", "n", "o">>
T_Kaduna == <<"K", "a", "d", "u", "n", "a">>
T_pullus == <<"p", "u", "l", "l", "u", "s">>

\* LOCATION_NAMES.get(tab_name, tab_name)
LocationName(tab_name) ==
    CASE tab_name = T_Abuja_Entry -> T_Abuja
      [] tab_name = T_Kaduna_Entry -> T_Kaduna
      [] tab_name = T_Kano_Entry -> T_Kano
      [] OTHER -> tab_name

\* COMPETITOR_SELLING_PRICE_TABS of the run's environment
SellingTabs == <<T_Kano_Entry, T_Abuja_Entry>>

RECURSIVE TabRecords(_, _, _)
\* the records of the rows of one tab
TabRecords(data, location, year) ==
    IF data = <<>> THEN <<>>
    ELSE LET Row(row, dt, brand) ==
                 IF ~Kept(dt, year) \/ brand = <<>> THEN <<>>
                 ELSE << [date |-> Val(dt), location |-> location, brand |-> brand,
                          price |-> [p \in ProductSet |-> parse_price(row[p])]] >>
         IN  Row(Head(data), parse_date(Head(data).date), Strip(Head(data).brand))
             \o TabRecords(Tail(data), location, year)

RECURSIVE FetchTabs(_, _, _)
FetchTabs(sheets, k, year) ==
    IF k > Len(SellingTabs) THEN <<>>
    ELSE LET tab_name == Strip(SellingTabs[k])
         IN  (IF tab_name = <<>> THEN <<>>
              ELSE TabRecords(sheets[k], LocationName(tab_name), year))
             \o FetchTabs(sheets, k + 1, year)

fetch_competitor_data(sheets, year) == FetchTabs(sheets, 1, year)

\* a comparison that tells upper case from lower case
IsPullusSameCase(brand) == brand = T_pullus

\* r["brand"].lower() == "pullus"
IsPullus(brand) == Lower(brand) = T_pullus

EmptyGroup ==
    [pullus |-> [p \in ProductSet |-> <<>>],
     competitors |-> [p \in ProductSet |-> <<>>],
     comp_brands |-> {}]

\* comp_brands as a list: an element for every price added
AppendBrand(comp_brands, brand) == comp_brands \cup {<<brand, Cardinality(comp_brands)>>}

\* groups[key]["comp_brands"].add(r["brand"]), comp_brands being a set
AddBrand(comp_brands, brand) == comp_brands \cup {brand}

RECURSIVE AddPrices(_, _, _, _)
\* the inner loop over PRODUCTS for record r, from product k on
AddPrices(groups, r, key, k) ==
    IF k > Len(PRODUCTS) THEN groups
    ELSE LET product_name == PRODUCTS[k]
             price == r.price[product_name]
         IN  IF price = None THEN AddPrices(groups, r, key, k + 1)
             ELSE LET g == Entry(groups, key, EmptyGroup)
                      new == IF IsPullus(r.brand)
                             THEN [g EXCEPT !.pullus[product_name] = Append(@, Val(price))]
                             ELSE [g EXCEPT !.competitors[product_name] = Append(@, Val(price)),
                                            !.comp_brands = AddBrand(@, r.brand)]
                  IN  AddPrices(Store(groups, key, new), r, key, k + 1)

RECURSIVE Groups(_, _)
\* the first loop of aggregate_by_date_location
Groups(records, groups) ==
    IF records = <<>> THEN groups
    ELSE LET r == Head(records)
         IN  Groups(Tail(records), AddPrices(groups, r, <<r.date, r.location>>, 1))

\* tuple order of (date, location) keys
GroupKeyLess(a, b) == a[1] < b[1] \/ (a[1] = b[1] /\ TextLess(a[2], b[2]))

RECURSIVE SortedGroupKeys(_)
\* the keys of sorted(groups.items())
SortedGroupKeys(S) ==
    IF S = {} THEN <<>>
    ELSE LET Then(m) == <<m>> \o SortedGroupKeys(S \ {m})
         IN  Then(CHOOSE m \in S : \A k \in S : k = m \/ GroupKeyLess(m, k))

\* a mean that is zero for no prices
MeanZeroWhenEmpty(prices) == IF prices # <<>> THEN Some(RoundMean0(prices)) ELSE Some(0)

\* round(sum(prices) / len(prices), 0) if prices else None
MeanOrNone(prices) == IF prices # <<>> THEN Some(RoundMean0(prices)) ELSE None

\* the truth value of an optional float: neither None nor 0
Truthy(x) == x # None /\ Val(x) # 0

\* a differential that loses its sign
DiffPctUnsigned(pullus_price, comp_avg) ==
    IF Truthy(pullus_price) /\ Truthy(comp_avg) /\ Val(comp_avg) > 0
    THEN Some(Abs(PctChange(Val(pullus_price), Val(comp_avg))))
    ELSE None

\* <product>_diff_pct of a row
DiffPct(pullus_price, comp_avg) ==
    IF Truthy(pullus_price) /\ Truthy(comp_avg) /\ Val(comp_avg) > 0
    THEN Some(PctChange(Val(pullus_price), Val(comp_avg)))
    ELSE None

\* one row of result: <product>_pullus, <product>_comp_avg and <product>_diff_pct
\* are the functions pullus, comp_avg and diff_pct of the product
GroupRow(key, vals) ==
    LET Row(pullus, comp_avg) ==
            [date |-> key[1], location |-> key[2],
             comp_brands |-> Cardinality(vals.comp_brands),
             pullus |-> pullus,
             comp_avg |-> comp_avg,
             diff_pct |-> [p \in ProductSet |-> DiffPct(pullus[p], comp_avg[p])]]
    IN  Row([p \in ProductSet |-> MeanOrNone(vals.pullus[p])],
            [p \in ProductSet |-> MeanOrNone(vals.competitors[p])])

aggregate_by_date_location(records) ==
    LET Result(groups, keys) == [i \in 1..Len(keys) |-> GroupRow(keys[i], groups[keys[i]])]
        Sorted(groups) == Result(groups, SortedGroupKeys(DOMAIN groups))
    IN  Sorted(Groups(records, <<>>))

\* latest_by_loc.values(): per location the row of the greatest date
LatestByLoc(aggregated) ==
    SelectSeq(aggregated,
              LAMBDA r : \A k \in 1..Len(aggregated) :
                  aggregated[k].location = r.location => aggregated[k].date <= r.date)

\* round(sum(prices) / len(prices), 0) if prices else 0
MeanOrZero(prices) == IF prices # <<>> THEN Some(RoundMean0(prices)) ELSE Some(0)

\* round((a - b) / b * 100, 1) if b else 0
PctOrZero(a, b) == IF b # 0 THEN Some(PctChange(a, b)) ELSE Some(0)

\* the summary figures of build_dashboard of competitor selling
selling_summary(aggregated) ==
    LET Figures(latest_pullus_wc, latest_comp_wc) ==
            [latest_pullus_wc |-> latest_pullus_wc,
             latest_comp_wc |-> latest_comp_wc,
             premium_pct |-> PctOrZero(Val(latest_pullus_wc), Val(latest_comp_wc))]
        Means(pullus_rows, comp_rows) ==
            Figures(MeanOrZero([k \in 1..Len(pullus_rows) |->
                                   Val(pullus_rows[k].pullus["Whole Chicken"])]),
                    MeanOrZero([k \in 1..Len(comp_rows) |->
                                   Val(comp_rows[k].comp_avg["Whole Chicken"])]))
        Latest(latest) ==
            Means(SelectSeq(latest, LAMBDA r : Truthy(r.pullus["Whole Chicken"])),
                  SelectSeq(latest, LAMBDA r : Truthy(r.comp_avg["Whole Chicken"])))
    IN  Latest(LatestByLoc(aggregated))


(***************************************************************************)
(* Competitor buying: fetch_buying_data and compute_summary.  A row holds  *)
(* the cells of the columns Date, State, Competitor Name, Product Type,    *)
(* Competitor Price (N), Pullus Price (N) and Notes of a data row (the     *)
(* rows after the header row).                                             *)
(***************************************************************************)
UpperOf(c) ==
    IF \E u \in Upper : LowerOf(u) = c /\ u # c
    THEN CHOOSE u \in Upper : LowerOf(u) = c
    ELSE c

IsLetter(c) == c \in Upper \/ UpperOf(c) # c

\* str.title()
Title(s) ==
    [k \in 1..Len(s) |->
        IF ~IsLetter(s[k]) THEN s[k]
        ELSE IF k = 1 \/ ~IsLetter(s[k - 1]) THEN UpperOf(s[k]) ELSE LowerOf(s[k])]

T_Dressed_Birds == <<"D", "r", "e", "s", "s", "e", "d", " ", "B", "i", "r", "d", "s">>
T_Live_Birds == <<"L", "i", "v", "e", " ", "B", "i", "r", "d", "s">>

RECURSIVE fetch_buying_data(_, _)
\* the loop of fetch_buying_data over the data rows
fetch_buying_data(data, year) ==
    IF data = <<>> THEN <<>>
    ELSE LET Row(row, dt, competitor) ==
                 IF ~Kept(dt, year) THEN <<>>
                 ELSE IF competitor = <<>> THEN <<>>
                 ELSE << [date |-> Val(dt),
                          state |-> Strip(row.state),
                          competitor |-> competitor,
                          product_type |-> Title(Strip(row.product_type)),
                          comp_price |-> parse_buying_price(row.comp_price),
                          pullus_price |-> parse_buying_price(row.pullus_price),
                          notes |-> Strip(row.notes)] >>
         IN  Row(Head(data), parse_date(Head(data).date), Strip(Head(data).competitor))
             \o fetch_buying_data(Tail(data), year)

\* [r[field] for r in records if r.get(field)]
PresentPrices(records, field) ==
    LET Values(present) == [k \in 1..Len(present) |-> Val(present[k][field])]
    IN  Values(SelectSeq(records, LAMBDA r : Truthy(r[field])))

\* a test that takes every record for a Dressed Birds record
IsAnyProduct(r) == TRUE

\* r["product_type"] == "Dressed Birds"
IsDressed(r) == r.product_type = T_Dressed_Birds

\* r["product_type"] == "Live Birds"
IsLive(r) == r.product_type = T_Live_Birds

compute_summary(records) ==
    LET Summary(dressed, live, avg_pullus, avg_comp) ==
            [avg_pullus |-> avg_pullus,
             avg_comp |-> avg_comp,
             diff_pct |-> PctOrZero(Val(avg_pullus), Val(avg_comp)),
             diff_abs |-> RoundTo(Val(avg_pullus) - Val(avg_comp), 1, 0),
             total_entries |-> Len(records),
             dressed_entries |-> Len(dressed),
             live_entries |-> Len(live),
             live_comp_prices |-> PresentPrices(live, "comp_price")]
        Split2(dressed, live) ==
            Summary(dressed, live,
                    MeanOrZero(PresentPrices(dressed, "pullus_price")),
                    MeanOrZero(PresentPrices(dressed, "comp_price")))
    IN  Split2(SelectSeq(records, IsDressed), SelectSeq(records, IsLive))

RECURSIVE SortedByDate(_)
\* sorted(records, key=lambda r: r["date"]): records of one date keep their order
SortedByDate(records) ==
    IF records = <<>> THEN <<>>
    ELSE LET Place(sorted, r) ==
                 SelectSeq(sorted, LAMBDA x : x.date <= r.date) \o <<r>>
                 \o SelectSeq(sorted, LAMBDA x : x.date > r.date)
         IN  Place(SortedByDate(SubSeq(records, 1, Len(records) - 1)),
                   records[Len(records)])

\* the index of the table's header row in all_values
TABLE_START == 12

\* a table with the Live Birds records before the Dressed Birds records
LiveBeforeDressed(dressed_records, live_records) == live_records \o dressed_records

\* combined_records of build_dashboard of competitor buying
CombinedRecords(dressed_records, live_records) == dressed_records \o live_records

\* all_values of build_dashboard of competitor buying, a row being [kind, record]
\* (the rows above the table by their kind only), and the rows of the chart's
\* source ranges: grid_range(sid, first, last, ...), last excluded
buying_table(records) ==
    LET Above(kinds) == [k \in DOMAIN kinds |-> [kind |-> kinds[k], record |-> None]]
        Values(combined_records) ==
            Above(<<"title", "subtitle", "spacer", "card", "card", "card", "card", "card",
                    "spacer", "live", "spacer", "note", "header">>)
            \o [k \in DOMAIN combined_records |->
                   [kind |-> "record", record |-> Some(combined_records[k])]]
        Table(dressed_records, live_records) ==
            [all_values |-> Values(CombinedRecords(dressed_records, live_records)),
             chart_first |-> TABLE_START,
             chart_last |-> TABLE_START + Len(dressed_records) + 1]
        Split2(sorted_records) ==
            Table(SelectSeq(sorted_records, IsDressed), SelectSeq(sorted_records, IsLive))
    IN  Split2(SortedByDate(records))


(***************************************************************************)
(* The state machine.  A behaviour is about one report domain: its source  *)
(* sheet is edited row by row while no run is in progress; a run fetches   *)
(* and aggregates the sheet as dashboard.main does for that domain, and    *)
(* ends, after which the sheet may be edited again.  The domain "price" is *)
(* one price cell, typed fragment by fragment and given to both price      *)
(* normalizers.  A run is one in which data_changed answers True for the   *)
(* domain, as it does outside CI, where no stored hash is loaded.          *)
(***************************************************************************)
\* the most rows a sheet holds
MaxRows == 3

\* the most rows of the purchase sheet a report is built from
MaxReportRows == 4

\* the most fragments a price cell is typed from
MaxChunks == 3

\* the longest run of digits in a price cell
MaxDigits == 6

\* the years datetime.now() may fall in
Years == {2025, 2026}

Domains ==
    {"purchase", "doc", "selling", "buying", "price", "main", "date", "report", "sheet"}

\* the rows the purchase sheet is filled from
PurchaseSamples ==
    { [date |-> <<"0", "6", "-", "J", "a", "n", "-", "2", "0", "2", "5">>, birds |-> <<"1", "0", "0">>, chicken_wt |-> <<"5", "0", ".", "0">>, gizzard_wt |-> <<"1", "0", ".", "0">>],
      [date |-> <<"2", "0", "2", "5", "-", "0", "1", "-", "0", "8">>, birds |-> <<"2", "0", "0">>, chicken_wt |-> <<"9", "0", ".", "0">>, gizzard_wt |-> <<"1", "5", ".", "0">>],
      [date |-> <<"0", "1", "/", "0", "6", "/", "2", "0", "2", "5">>, birds |-> <<"1", ",", "0", "0", "0">>, chicken_wt |-> <<"2", "0", ".", "5">>, gizzard_wt |-> <<>>],
      [date |-> <<"J", "a", "n", " ", "2", "7", ",", " ", "2", "0", "2", "5">>, birds |-> <<>>, chicken_wt |-> <<"a", "b", "c">>, gizzard_wt |-> <<"0">>],
      [date |-> <<"3", "1", " ", "F", "e", "b", " ", "2", "0", "2", "5">>, birds |-> <<"5", "0", "0">>, chicken_wt |-> <<"5", "0", "0">>, gizzard_wt |-> <<"5", "0", "0">>],
      [date |-> <<"2", " ", "M", "a", "r", "c", "h", " ", "2", "0", "2", "6">>, birds |-> <<"7">>, chicken_wt |-> <<"1", ".", "2", "5">>, gizzard_wt |-> <<"2">>],
      [date |-> <<"2", "9", "/", "1", "2", "/", "2", "0", "2", "5">>, birds |-> <<"4", "0">>, chicken_wt |-> <<"4", ".", "5">>, gizzard_wt |-> <<"0", ".", "5">>] }

\* the rows the purchase sheet of a built report is filled from: three days of
\* one week and a day of each of the next two weeks
ReportSamples ==
    { [date |-> <<"2", "0", "2", "5", "-", "0", "1", "-", "0", "6">>, birds |-> <<"1", "0", "0">>, chicken_wt |-> <<"5", "0">>, gizzard_wt |-> <<>>],
      [date |-> <<"2", "0", "2", "5", "-", "0", "1", "-", "0", "7">>, birds |-> <<>>, chicken_wt |-> <<"2", "0">>, gizzard_wt |-> <<"5">>],
      [date |-> <<"2", "0", "2", "5", "-", "0", "1", "-", "0", "8">>, birds |-> <<"0">>, chicken_wt |-> <<>>, gizzard_wt |-> <<>>],
      [date |-> <<"2", "0", "2", "5", "-", "0", "1", "-", "1", "3">>, birds |-> <<"2", "0", "0">>, chicken_wt |-> <<"9", "0">>, gizzard_wt |-> <<"1", "0">>],
      [date |-> <<"2", "0", "2", "5", "-", "0", "1", "-", "2", "0">>, birds |-> <<"5", "0">>, chicken_wt |-> <<"3", "0">>, gizzard_wt |-> <<>>] }

\* the rows the DOC price sheet is filled from
DocSamples ==
    { [date |-> <<"0", "6", "-", "J", "a", "n", "-", "2", "0", "2", "5">>,
       prices |-> <<<<"1", ",", "0", "0", "0">>, <<"1", ",", "2", "0", "0">>>>],
      [date |-> <<"2", "0", "2", "5", "-", "0", "1", "-", "0", "8">>,
       prices |-> <<<<"1", "1", "0", "0">>, <<>>>>],
      [date |-> <<"2", "9", "/", "1", "2", "/", "2", "0", "2", "5">>,
       prices |-> <<<<"9", "0", "0">>, <<"a", "b", "c">>>>],
      [date |-> <<"2", "0", "2", "5", "-", "0", "1", "-", "1", "0">>,
       prices |-> <<<<"-", "5">>, <<"0">>>>],
      [date |-> <<"3", "1", " ", "F", "e", "b", " ", "2", "0", "2", "5">>,
       prices |-> <<<<"5", "0", "0", "0">>, <<"5", "0", "0", "0">>>>],
      [date |-> <<"1", "5", " ", "J", "a", "n", "u", "a", "r", "y", " ", "2", "0", "2", "6">>,
       prices |-> <<<<"1", "5", "0", "0">>, <<"1", "5", "0", "1">>>>],
      [date |-> <<"2", "0", "2", "5", "-", "0", "2", "-", "0", "3">>,
       prices |-> <<<<"0", ".", "4">>, <<>>>>],
      [date |-> <<"1", "3", "-", "J", "a", "n", "-", "2", "0", "2", "5">>,
       prices |-> <<<<"1", "2", "0", "0">>, <<"1", "0", "0", "0">>>>] }

\* the rows the competitor selling tabs are filled from: tab is the index of the
\* row's tab in SellingTabs
SellingSamples ==
    { [tab |-> 2,
       row |-> [date |-> <<"2", "0", "2", "5", "-", "0", "1", "-", "0", "6">>, brand |-> <<"P", "u", "l", "l", "u", "s">>]
               @@ ("Whole Chicken" :> <<"4", "0", "0", "0">>) @@ ("Gizzard" :> <<"3", ",", "0", "0", "0">>)],
      [tab |-> 1,
       row |-> [date |-> <<"0", "6", "-", "J", "a", "n", "-", "2", "0", "2", "5">>, brand |-> <<"Z", "a", "r", "t", "e", "c", "h">>]
               @@ ("Whole Chicken" :> <<"3", "9", "0", "0", "/", "4", "0", "0", "0">>) @@ ("Gizzard" :> <<>>)],
      [tab |-> 2,
       row |-> [date |-> <<"2", "0", "2", "5", "-", "0", "1", "-", "0", "6">>, brand |-> <<"A", "m", "o">>]
               @@ ("Whole Chicken" :> <<"3", "4", "0", "0">>) @@ ("Gizzard" :> <<"a", "b", "c">>)],
      [tab |-> 1,
       row |-> [date |-> <<"2", "0", "2", "5", "-", "0", "1", "-", "0", "6">>, brand |-> <<"p", "u", "l", "l", "u", "s", " ">>]
               @@ ("Whole Chicken" :> <<"3", ",", "8", "0", "0">>) @@ ("Gizzard" :> <<>>)],
      [tab |-> 2,
       row |-> [date |-> <<"5", " ", "J", "a", "n", "u", "a", "r", "y", " ", "2", "0", "2", "6">>, brand |-> <<"A", "m", "o">>]
               @@ ("Whole Chicken" :> <<"3", "0", "0", "0">>) @@ ("Gizzard" :> <<>>)],
      [tab |-> 2,
       row |-> [date |-> <<"2", "0", "2", "5", "-", "0", "1", "-", "0", "7">>, brand |-> <<"P", "U", "L", "L", "U", "S">>]
               @@ ("Whole Chicken" :> <<"0", ".", "4">>) @@ ("Gizzard" :> <<>>)],
      [tab |-> 2,
       row |-> [date |-> <<"2", "0", "2", "5", "-", "0", "1", "-", "0", "7">>, brand |-> <<"A", "m", "o">>]
               @@ ("Whole Chicken" :> <<"0", ".", "4">>) @@ ("Gizzard" :> <<"2", "0">>)],
      [tab |-> 1,
       row |-> [date |-> <<"2", "0", "2", "5", "-", "0", "1", "-", "0", "6">>, brand |-> <<>>]
               @@ ("Whole Chicken" :> <<"4", "0", "0", "0">>) @@ ("Gizzard" :> <<"4", "0", "0", "0">>)],
      [tab |-> 2,
       row |-> [date |-> <<"2", "0", "2", "5", "-", "0", "1", "-", "0", "6">>, brand |-> <<"P", "u", "l", "l", "u", "s", " ", "F", "a", "r", "m">>]
               @@ ("Whole Chicken" :> <<"3", "6", "0", "0">>) @@ ("Gizzard" :> <<>>)],
      [tab |-> 1,
       row |-> [date |-> <<"0", "6", "-", "J", "a", "n", "-", "2", "0", "2", "5">>, brand |-> <<"C", "h", "i">>]
               @@ ("Whole Chicken" :> <<"a", "b", "c">>) @@ ("Gizzard" :> <<>>)] }

\* the rows the competitor buying sheet is filled from
BuyingSamples ==
    { [date |-> <<"2", "0", "2", "5", "-", "0", "1", "-", "0", "6">>, state |-> <<"K", "a", "d", "u", "n", "a">>, competitor |-> <<"A", "m", "o">>,
       product_type |-> <<"d", "r", "e", "s", "s", "e", "d", " ", "b", "i", "r", "d", "s">>,
       comp_price |-> <<"3", ",", "3", "0", "0", " ", "-", " ", "3", ",", "5", "0", "0">>,
       pullus_price |-> <<"4", "0", "0", "0">>, notes |-> <<>>],
      [date |-> <<"0", "6", "-", "J", "a", "n", "-", "2", "0", "2", "5">>, state |-> <<>>, competitor |-> <<"Z", "a", "r", "t", "e", "c", "h">>,
       product_type |-> <<"D", "r", "e", "s", "s", "e", "d", " ", "B", "i", "r", "d", "s">>,
       comp_price |-> <<>>,
       pullus_price |-> <<>>, notes |-> <<>>],
      [date |-> <<"2", "0", "2", "5", "-", "0", "1", "-", "0", "7">>, state |-> <<>>, competitor |-> <<"C", "h", "i">>,
       product_type |-> <<"L", "i", "v", "e", " ", "B", "i", "r", "d", "s">>,
       comp_price |-> <<"2", "0", "0", "0">>,
       pullus_price |-> <<"9", "9", "9", "9">>, notes |-> <<>>],
      [date |-> <<"3", "1", " ", "F", "e", "b", " ", "2", "0", "2", "5">>, state |-> <<>>, competitor |-> <<"A", "m", "o">>,
       product_type |-> <<"D", "r", "e", "s", "s", "e", "d", " ", "B", "i", "r", "d", "s">>,
       comp_price |-> <<"1">>,
       pullus_price |-> <<"1">>, notes |-> <<>>],
      [date |-> <<"2", "0", "2", "5", "-", "0", "1", "-", "0", "8">>, state |-> <<>>, competitor |-> <<>>,
       product_type |-> <<"D", "r", "e", "s", "s", "e", "d", " ", "B", "i", "r", "d", "s">>,
       comp_price |-> <<"3", "0", "0", "0">>,
       pullus_price |-> <<"3", "0", "0", "0">>, notes |-> <<>>],
      [date |-> <<"2", "0", "2", "5", "-", "0", "1", "-", "0", "9">>, state |-> <<>>, competitor |-> <<"A", "m", "o">>,
       product_type |-> <<"D", "r", "e", "s", "s", "e", "d", " ", "B", "i", "r", "d", "s">>,
       comp_price |-> <<"3", ",", "0", "0", "0">>,
       pullus_price |-> <<>>, notes |-> <<>>],
      [date |-> <<"1", "/", "9", "/", "2", "0", "2", "6">>, state |-> <<>>, competitor |-> <<"A", "m", "o">>,
       product_type |-> <<"D", "r", "e", "s", "s", "e", "d", " ", "B", "i", "r", "d", "s">>,
       comp_price |-> <<>>,
       pullus_price |-> <<"3", "5", "0", "0">>, notes |-> <<>>],
      [date |-> <<"2", "0", "2", "5", "-", "0", "1", "-", "0", "5">>, state |-> <<>>, competitor |-> <<"C", "h", "i">>,
       product_type |-> <<"E", "g", "g", "s">>,
       comp_price |-> <<"1", "0", "0">>,
       pullus_price |-> <<"9", "0">>, notes |-> <<>>] }

\* the fragments a price cell is typed from
PriceChunks ==
    { <<"3", ",", "3", "0", "0">>,
      <<"3", "5", "0", "1">>,
      <<"4", "0", "0", "0">>,
      <<" ", "-", " ">>,
      <<"/">>,
      <<" ">>,
      <<"0">>,
      <<"-", "5">>,
      <<"x">> }

RECURSIVE Concat(_)
Concat(ss) == IF ss = <<>> THEN <<>> ELSE Head(ss) \o Concat(Tail(ss))

\* no run of more than MaxDigits digits (thousands separators aside)
DigitRunsOK(text) ==
    LET Short(u) == \A i \in 1..Len(u) : \E k \in i..(i + MaxDigits) : ~DigitAt(u, k)
    IN  Short(Remove(text, ","))


(***************************************************************************)
(* dashboard.main: the four report domains one after another, each with    *)
(* its fetch, its change detection, its aggregation and its report.  In    *)
(* the domain "main" rows holds the four source sheets by hash key.        *)
(***************************************************************************)
\* the keys of data_hashes.json in the order main handles the domains
Keys == <<"weekly_purchase", "doc_price", "competitor_selling", "competitor_buying">>

KeySet == SeqToSet(Keys)

\* the name main appends to updated
ReportTitle(key) ==
    CASE key = "weekly_purchase" -> "Weekly Purchase"
      [] key = "doc_price" -> "DOC Price Trends"
      [] key = "competitor_selling" -> "Competitor Selling Prices"
      [] key = "competitor_buying" -> "Competitor Buying Prices"

\* compute_hash: the SHA-256 digest of the JSON text of data.  The JSON text of
\* a fetched value (lists and dicts of str, float and datetime, the datetime
\* through str) determines the value, and two texts share a digest only if they
\* are equal, so a digest is written as the tagged value it was computed from.
compute_hash(data) == <<"sha256", data>>

\* hashes.get(key)
Get(hashes, key) == IF key \in DOMAIN hashes THEN Some(hashes[key]) ELSE None

\* a change detection that compares with the hash it has just stored
data_changed_against_new(is_ci, key, data, prev_hashes, new_hashes) ==
    LET Answer(h) ==
            [new_hashes |-> Store(new_hashes, key, h),
             changed |-> IF ~is_ci THEN TRUE
                         ELSE Some(h) # Get(Store(new_hashes, key, h), key)]
    IN  Answer(compute_hash(data))

\* a change detection that records the hash of changed data only
data_changed_recording_changes(is_ci, key, data, prev_hashes, new_hashes) ==
    LET Answer(h, changed) ==
            [new_hashes |-> IF changed THEN Store(new_hashes, key, h) ELSE new_hashes,
             changed |-> changed]
    IN  Answer(compute_hash(data), ~is_ci \/ Some(compute_hash(data)) # Get(prev_hashes, key))

\* data_changed under IS_CI = is_ci: new_hashes after the call and the answer
data_changed(is_ci, key, data, prev_hashes, new_hashes) ==
    LET Answer(h) ==
            [new_hashes |-> Store(new_hashes, key, h),
             changed |-> IF ~is_ci THEN TRUE
                         ELSE Some(h) # Get(prev_hashes, key)]
    IN  Answer(compute_hash(data))

\* what main fetches for a domain: fetch_raw_data, fetch_price_data,
\* fetch_competitor_data, fetch_buying_data
FetchData(key, sheets, year) ==
    CASE key = "weekly_purchase" -> sheets[key]
      [] key = "doc_price" -> sheets[key]
      [] key = "competitor_selling" -> fetch_competitor_data(sheets[key], year)
      [] key = "competitor_buying" -> fetch_buying_data(sheets[key], year)

\* what main passes to build_dashboard of a domain: weeks, price_weeks,
\* comp_aggregated, buying_records
Aggregated(key, data, year) ==
    CASE key = "weekly_purchase" -> aggregate_weekly(data, year)
      [] key = "doc_price" -> aggregate_weekly_prices(data, year)
      [] key = "competitor_selling" -> aggregate_by_date_location(data)
      [] key = "competitor_buying" -> data

\* a main that builds the report whenever the data changed
BuildsWhenChanged(changed, aggregated) == changed

\* the report is built: the data changed and `not aggregated` is false
Builds(changed, aggregated) == changed /\ aggregated # <<>>

\* the contents the source sheets of a run take
MainSheets ==
    [weekly_purchase |->
        { << [date |-> <<"0", "6", "-", "J", "a", "n", "-", "2", "0", "2", "5">>, birds |-> <<"1", "0", "0">>, chicken_wt |-> <<"5", "0", ".", "0">>, gizzard_wt |-> <<"1", "0", ".", "0">>] >>,
          << [date |-> <<"0", "6", "-", "J", "a", "n", "-", "2", "0", "2", "5">>, birds |-> <<"1", "0", "0">>, chicken_wt |-> <<"5", "0", ".", "0">>, gizzard_wt |-> <<"1", "0", ".", "0">>],
             [date |-> <<"2", "0", "2", "5", "-", "0", "1", "-", "0", "8">>, birds |-> <<"2", "0", "0">>, chicken_wt |-> <<"9", "0", ".", "0">>, gizzard_wt |-> <<"1", "5", ".", "0">>] >> },
     doc_price |->
        { << [date |-> <<"0", "6", "-", "J", "a", "n", "-", "2", "0", "2", "5">>,
              prices |-> <<<<"1", ",", "0", "0", "0">>, <<"1", ",", "2", "0", "0">>>>] >>,
          << [date |-> <<"1", "5", " ", "J", "a", "n", "u", "a", "r", "y", " ", "2", "0", "2", "6">>,
              prices |-> <<<<"1", "5", "0", "0">>, <<"1", "5", "0", "1">>>>] >> },
     competitor_selling |->
        { << <<>>,
             << [date |-> <<"2", "0", "2", "5", "-", "0", "1", "-", "0", "6">>, brand |-> <<"P", "u", "l", "l", "u", "s">>]
                @@ ("Whole Chicken" :> <<"4", "0", "0", "0">>) @@ ("Gizzard" :> <<"3", ",", "0", "0", "0">>) >> >> },
     competitor_buying |->
        { << [date |-> <<"2", "0", "2", "5", "-", "0", "1", "-", "0", "6">>, state |-> <<"K", "a", "d", "u", "n", "a">>, competitor |-> <<"A", "m", "o">>,
              product_type |-> <<"d", "r", "e", "s", "s", "e", "d", " ", "b", "i", "r", "d", "s">>,
              comp_price |-> <<"3", ",", "3", "0", "0", " ", "-", " ", "3", ",", "5", "0", "0">>,
              pullus_price |-> <<"4", "0", "0", "0">>, notes |-> <<>>] >>,
          << [date |-> <<"1", "/", "9", "/", "2", "0", "2", "6">>, state |-> <<>>, competitor |-> <<"A", "m", "o">>,
              product_type |-> <<"D", "r", "e", "s", "s", "e", "d", " ", "B", "i", "r", "d", "s">>,
              comp_price |-> <<>>,
              pullus_price |-> <<"3", "5", "0", "0">>, notes |-> <<>>] >> }]


\* the character of a digit
DigitChar(n) == CHOOSE c \in Digits : DigitVal(c) = n

RECURSIVE NumText(_, _)
\* n written with width digits
NumText(n, width) ==
    IF width = 0 THEN <<>> ELSE Append(NumText(n \div 10, width - 1), DigitChar(n % 10))

\* what a directive or literal of a format writes for the date dt: two-digit day
\* and month, four-digit year, the month names capitalised
WriteField(tok, dt) ==
    CASE tok = "%Y" -> NumText(YearOf(dt), 4)
      [] tok = "%m" -> NumText(MonthOf(dt), 2)
      [] tok = "%d" -> NumText(DayOf(dt), 2)
      [] tok = "%b" -> Title(MonthAbbr[MonthOf(dt)])
      [] tok = "%B" -> Title(MonthFull[MonthOf(dt)])
      [] OTHER -> <<tok>>

\* the date dt written in a format of parse_date
WriteDate(dt, fmt) == Concat([k \in 1..Len(fmt) |-> WriteField(fmt[k], dt)])

\* the calendar dates written into date cells
DateSamples ==
    {20250106, 20250113, 20250505, 20240229, 20251231, 20260302, 20250901, 20251110}

\* the other values given to parse_date and safe_float: texts that are no date
\* of a supported format, and values that are no str
OtherCells ==
    { <<"3", "1", " ", "F", "e", "b", " ", "2", "0", "2", "5">>,
      <<"2", "0", "2", "5", "-", "1", "3", "-", "0", "1">>,
      <<"0", "6", ".", "0", "1", ".", "2", "0", "2", "5">>,
      <<"2", "0", "2", "5", "-", "0", "1", "-", "0", "6", "x">>,
      <<"a", "b", "c">>,
      <<>>,
      <<" ">>,
      <<"1", ",", "0", "0", "0">>,
      <<"4", "2">>,
      <<"NoneType", "N", "o", "n", "e">>,
      <<"int", "4", "2">>,
      <<"bytes", "2", "0", "2", "5", "-", "0", "1", "-", "0", "6">> }

(***************************************************************************)
(* A report sheet and its build: clear_sheet and the calls of              *)
(* build_dashboard that change the sheet.  A sheet is [key, exists,        *)
(* values, formats, charts, rules, builds]: values and formats name the    *)
(* build that wrote them (0: cleared), charts is the list of the ids of    *)
(* the embedded charts, rules the list of conditional-format rules in      *)
(* index order, builds the number of builds started.  A batch_update       *)
(* applies its requests in order and applies none of them when one fails.  *)
(***************************************************************************)
\* the most builds of a report
MaxBuilds == 3

\* the most charts a user places on a report sheet by hand
MaxHandCharts == 2

\* the most conditional-format rules a user adds to a report sheet by hand
MaxHandRules == 1

\* conditional_format_request: the two requests for the columns c1 to c2
conditional_format_request(c1, c2, positive_color, negative_color) ==
    << [op |-> "addConditionalFormatRule", index |-> 0,
        rule |-> [c1 |-> c1, c2 |-> c2, type |-> "NUMBER_GREATER", color |-> positive_color]],
       [op |-> "addConditionalFormatRule", index |-> 1,
        rule |-> [c1 |-> c1, c2 |-> c2, type |-> "NUMBER_LESS", color |-> negative_color]] >>

\* the conditional-format requests among reqs of build_dashboard of a report
FormatRequests(key) ==
    CASE key = "weekly_purchase" -> conditional_format_request(8, 10, "GREEN", "RED")
      [] key = "doc_price" -> conditional_format_request(7, 9, "GREEN", "RED")
      [] key = "competitor_selling" ->
            conditional_format_request(4, 5, "RED", "GREEN")
            \o conditional_format_request(7, 8, "RED", "GREEN")
      [] key = "competitor_buying" ->
            conditional_format_request(6, 7, "GREEN", "RED")
            \o conditional_format_request(7, 8, "GREEN", "RED")

\* the requests of build n: every rule carries the build that adds it
TaggedRequests(reqs, n) ==
    [k \in DOMAIN reqs |-> [reqs[k] EXCEPT !.rule = @ @@ [build |-> n]]]

\* no request for the charts
NoChartDeletes(charts) == <<>>

\* cleanup_reqs of clear_sheet, first part: one deleteEmbeddedObject per chart
ChartDeletes(charts) ==
    [k \in DOMAIN charts |-> [op |-> "deleteEmbeddedObject", objectId |-> charts[k]]]

\* one request per rule, each for the index the rule has before the batch
RuleDeletesByIndex(count) ==
    [k \in 1..count |-> [op |-> "deleteConditionalFormatRule", index |-> k - 1]]

\* cleanup_reqs of clear_sheet, second part: one deleteConditionalFormatRule
\* for index 0 per rule
RuleDeletes(count) ==
    [k \in 1..count |-> [op |-> "deleteConditionalFormatRule", index |-> 0]]

\* cleanup_reqs for the sheet metadata meta
cleanup_reqs(meta) == ChartDeletes(meta.charts) \o RuleDeletes(meta.conditionalFormats)

\* s without its element at position k
Without(s, k) == SubSeq(s, 1, k - 1) \o SubSeq(s, k + 1, Len(s))

\* s with x as its element at position k
InsertAt(s, k, x) == SubSeq(s, 1, k - 1) \o <<x>> \o SubSeq(s, k, Len(s))

\* the sheet after one request, None when the request is refused
ApplyRequest(sheet, req) ==
    CASE req.op = "deleteEmbeddedObject" ->
            IF \E k \in DOMAIN sheet.charts : sheet.charts[k] = req.objectId
            THEN Some([sheet EXCEPT !.charts = SelectSeq(@, LAMBDA c : c # req.objectId)])
            ELSE None
      [] req.op = "deleteConditionalFormatRule" ->
            IF req.index < Len(sheet.rules)
            THEN Some([sheet EXCEPT !.rules = Without(@, req.index + 1)])
            ELSE None
      [] req.op = "addConditionalFormatRule" ->
            IF req.index <= Len(sheet.rules)
            THEN Some([sheet EXCEPT !.rules = InsertAt(@, req.index + 1, req.rule)])
            ELSE None
      [] req.op = "addChart" ->
            Some([sheet EXCEPT !.charts = Append(@, req.chartId)])

RECURSIVE ApplyBatch(_, _)
\* dash_sh.batch_update({"requests": reqs}): the sheet after all requests, None
\* when one of them is refused (the call raises and the sheet is as before)
ApplyBatch(sheet, reqs) ==
    IF reqs = <<>> THEN Some(sheet)
    ELSE LET Rest(after) ==
                 IF after = None THEN None ELSE ApplyBatch(Val(after), Tail(reqs))
         IN  Rest(ApplyRequest(sheet, Head(reqs)))

\* the rules the format batch of build_dashboard of a report adds, in the order
\* of its requests
FormatRules(key) == [k \in DOMAIN FormatRequests(key) |-> FormatRequests(key)[k].rule]

\* diff_color of build_dashboard of competitor buying: the colour of the
\* PULLUS vs MARKET card
diff_color(diff_pct) == IF Val(diff_pct) < 0 THEN "RED" ELSE "GREEN"

\* a premium card coloured as the differential card of competitor buying is
premium_color_as_saving(premium_pct) == IF Val(premium_pct) < 0 THEN "RED" ELSE "GREEN"

\* premium_color of build_dashboard of competitor selling: the colour of the
\* premium card
premium_color(premium_pct) == IF Val(premium_pct) > 0 THEN "RED" ELSE "GREEN"

\* the report sheet of key before the first run: sheet1 exists, the other
\* sheets are created by get_or_create_sheet
NewSheet(key) ==
    [key |-> key, exists |-> key = "weekly_purchase", values |-> 0, formats |-> 0,
     charts |-> <<>>, rules |-> <<>>, builds |-> 0]

Init ==
    /\ domain \in Domains
    /\ current_year \in Years
    /\ rows \in IF domain = "selling" THEN {[k \in 1..Len(SellingTabs) |-> <<>>]}
                ELSE IF domain = "main"
                THEN {sheets \in [KeySet -> UNION {MainSheets[k] : k \in KeySet}] :
                         \A k \in KeySet : sheets[k] \in MainSheets[k]}
                ELSE IF domain = "sheet" THEN {NewSheet(k) : k \in KeySet}
                ELSE {<<>>}
    /\ pc = "idle"
    /\ out = None
    /\ hash_file = <<>>
    /\ dashboard = [k \in KeySet |-> None]
    /\ run = None

EditPurchaseSheet ==
    /\ domain = "purchase" /\ pc = "idle" /\ Len(rows) < MaxRows
    /\ \E r \in PurchaseSamples : rows' = Append(rows, r)
    /\ UNCHANGED <<domain, current_year, pc, out>>
    /\ UNCHANGED mainVars

EditDocSheet ==
    /\ domain = "doc" /\ pc = "idle" /\ Len(rows) < MaxRows
    /\ \E r \in DocSamples : rows' = Append(rows, r)
    /\ UNCHANGED <<domain, current_year, pc, out>>
    /\ UNCHANGED mainVars

EditSellingSheet ==
    /\ domain = "selling" /\ pc = "idle" /\ Len(Concat(rows)) < MaxRows
    /\ \E s \in SellingSamples : rows' = [rows EXCEPT ![s.tab] = Append(@, s.row)]
    /\ UNCHANGED <<domain, current_year, pc, out>>
    /\ UNCHANGED mainVars

EditBuyingSheet ==
    /\ domain = "buying" /\ pc = "idle" /\ Len(rows) < MaxRows
    /\ \E r \in BuyingSamples : rows' = Append(rows, r)
    /\ UNCHANGED <<domain, current_year, pc, out>>
    /\ UNCHANGED mainVars

TypePriceCell ==
    /\ domain = "price" /\ pc = "idle" /\ Len(rows) < MaxChunks
    /\ \E c \in {x \in PriceChunks : DigitRunsOK(Concat(Append(rows, x)))} :
          rows' = Append(rows, c)
    /\ UNCHANGED <<domain, current_year, pc, out>>
    /\ UNCHANGED mainVars

\* dashboard.main, sheet 1: aggregate_weekly(raw)
RunWeeklyPurchase ==
    /\ domain = "purchase" /\ pc = "idle"
    /\ out' = [weeks |-> aggregate_weekly(rows, current_year)]
    /\ pc' = "done"
    /\ UNCHANGED <<domain, current_year, rows>>
    /\ UNCHANGED mainVars

EditReportSheet ==
    /\ domain = "report" /\ pc = "idle" /\ Len(rows) < MaxReportRows
    /\ \E r \in ReportSamples : rows' = Append(rows, r)
    /\ UNCHANGED <<domain, current_year, pc, out>>
    /\ UNCHANGED mainVars

\* dashboard.main, sheet 1 with its report: aggregate_weekly(raw) and, unless
\* nothing was aggregated, the Avg/Day WoW cards of build_dashboard
RunPurchaseReport ==
    /\ domain = "report" /\ pc = "idle"
    /\ LET Built(weeks) ==
               [weeks |-> weeks,
                cards |-> IF weeks # <<>> THEN Some(purchase_cards(weeks)) ELSE None]
       IN  out' = Built(aggregate_weekly(rows, current_year))
    /\ pc' = "done"
    /\ UNCHANGED <<domain, current_year, rows>>
    /\ UNCHANGED mainVars

\* dashboard.main, sheet 2: aggregate_weekly_prices(price_data) and, unless
\* nothing was aggregated, the year-to-date figures of build_dashboard
RunDocPrice ==
    /\ domain = "doc" /\ pc = "idle"
    /\ LET Built(price_weeks) ==
               [price_weeks |-> price_weeks,
                summary |-> IF price_weeks # <<>>
                            THEN Some(doc_summary(price_weeks)) ELSE None]
       IN  out' = Built(aggregate_weekly_prices(rows, current_year))
    /\ pc' = "done"
    /\ UNCHANGED <<domain, current_year, rows>>
    /\ UNCHANGED mainVars

\* dashboard.main, sheet 3: fetch, aggregate and, unless nothing was aggregated,
\* the summary figures of build_dashboard
RunCompetitorSelling ==
    /\ domain = "selling" /\ pc = "idle"
    /\ LET Built(comp_records, comp_aggregated) ==
               [comp_records |-> comp_records,
                comp_aggregated |-> comp_aggregated,
                summary |-> IF comp_aggregated # <<>>
                            THEN Some(selling_summary(comp_aggregated)) ELSE None,
                card_color |-> IF comp_aggregated # <<>>
                               THEN Some(premium_color(
                                        selling_summary(comp_aggregated).premium_pct))
                               ELSE None,
                rules |-> IF comp_aggregated # <<>>
                          THEN FormatRules("competitor_selling") ELSE <<>>]
           Fetched(comp_records) ==
               Built(comp_records, aggregate_by_date_location(comp_records))
       IN  out' = Fetched(fetch_competitor_data(rows, current_year))
    /\ pc' = "done"
    /\ UNCHANGED <<domain, current_year, rows>>
    /\ UNCHANGED mainVars

\* dashboard.main, sheet 4: fetch and, unless there is no record, compute_summary
\* of build_dashboard
RunCompetitorBuying ==
    /\ domain = "buying" /\ pc = "idle"
    /\ LET Built(buying_records) ==
               [buying_records |-> buying_records,
                summary |-> IF buying_records # <<>>
                            THEN Some(compute_summary(buying_records)) ELSE None,
                card_color |-> IF buying_records # <<>>
                               THEN Some(diff_color(compute_summary(buying_records).diff_pct))
                               ELSE None,
                rules |-> IF buying_records # <<>>
                          THEN FormatRules("competitor_buying") ELSE <<>>,
                table |-> IF buying_records # <<>>
                          THEN Some(buying_table(buying_records)) ELSE None]
       IN  out' = Built(fetch_buying_data(rows, current_year))
    /\ pc' = "done"
    /\ UNCHANGED <<domain, current_year, rows>>
    /\ UNCHANGED mainVars

\* both normalizers on the typed cell
RunNormalizers ==
    /\ domain = "price" /\ pc = "idle"
    /\ out' = [selling |-> parse_price(Concat(rows)),
               buying |-> parse_buying_price(Concat(rows))]
    /\ pc' = "done"
    /\ UNCHANGED <<domain, current_year, rows>>
    /\ UNCHANGED mainVars

\* two blank cells are filled with one date, each written in a format of
\* parse_date; a row keeps the date and the index of the format its cell was
\* written from
WriteDateCells ==
    /\ domain = "date" /\ pc = "idle" /\ rows = <<>>
    /\ \E dt \in DateSamples : \E k1, k2 \in 1..Len(DateFormats) :
          rows' = << [cell |-> WriteDate(dt, DateFormats[k1]), date |-> dt, fmt |-> k1],
                     [cell |-> WriteDate(dt, DateFormats[k2]), date |-> dt, fmt |-> k2] >>
    /\ UNCHANGED <<domain, current_year, pc, out>>
    /\ UNCHANGED mainVars

\* one blank cell is filled with a value that is no date of a supported format
WriteOtherCell ==
    /\ domain = "date" /\ pc = "idle" /\ rows = <<>>
    /\ \E v \in OtherCells : rows' = << [cell |-> v, date |-> 0, fmt |-> 0] >>
    /\ UNCHANGED <<domain, current_year, pc, out>>
    /\ UNCHANGED mainVars

\* parse_date and safe_float on every cell
RunParsers ==
    /\ domain = "date" /\ pc = "idle"
    /\ out' = [dates |-> [i \in DOMAIN rows |-> parse_date(rows[i].cell)],
               numbers |-> [i \in DOMAIN rows |-> safe_float(rows[i].cell)]]
    /\ pc' = "done"
    /\ UNCHANGED <<domain, current_year, rows>>
    /\ UNCHANGED mainVars

\* the process ends: nothing it computed is kept
ExitRun ==
    /\ pc = "done"
    /\ pc' = "idle"
    /\ out' = None
    /\ UNCHANGED <<domain, current_year, rows>>
    /\ UNCHANGED mainVars

\* a source sheet is edited between two runs
EditSource ==
    /\ domain = "main" /\ pc = "idle"
    /\ \E key \in KeySet : \E sheet \in MainSheets[key] \ {rows[key]} :
          rows' = [rows EXCEPT ![key] = sheet]
    /\ UNCHANGED <<domain, current_year, pc, out>>
    /\ UNCHANGED mainVars

\* the locals of main before the first domain, in a process whose IS_CI is
\* is_ci: prev_hashes, new_hashes and updated, the index k of the domain at hand
\* and the argument arg of a pending build_dashboard; and the history of the
\* run: the hash file and the dashboard as the run found them, the data fetched
\* per key, the keys data_changed answered False for, what the aggregation
\* returned per key, and the calls of the fetch functions and of build_dashboard
\* in the order they were made (ok: the call returned)
Started(is_ci) ==
    [is_ci |-> is_ci,
     prev_hashes |-> IF is_ci THEN hash_file ELSE <<>>,
     new_hashes |-> <<>>,
     updated |-> <<>>,
     k |-> 1,
     arg |-> None,
     stored |-> hash_file,
     before |-> dashboard,
     fetched |-> <<>>,
     skipped |-> {},
     aggregated |-> <<>>,
     calls |-> <<>>]

\* main starts with GITHUB_ACTIONS = "true"
StartUnattended ==
    /\ domain = "main" /\ pc = "idle"
    /\ run' = Some(Started(TRUE))
    /\ pc' = "fetch"
    /\ UNCHANGED <<domain, current_year, rows, out, hash_file, dashboard>>

\* main starts without GITHUB_ACTIONS = "true"
StartInteractive ==
    /\ domain = "main" /\ pc = "idle"
    /\ run' = Some(Started(FALSE))
    /\ pc' = "fetch"
    /\ UNCHANGED <<domain, current_year, rows, out, hash_file, dashboard>>

\* the section of main for domain k up to build_dashboard: the fetch returns,
\* data_changed is asked and, if it answers True, the data is aggregated
FetchDomain ==
    /\ domain = "main" /\ pc = "fetch"
    /\ LET After(key, data, check, builds, aggregated) ==
               [Val(run) EXCEPT !.new_hashes = check.new_hashes,
                                !.fetched = Store(@, key, data),
                                !.skipped = IF check.changed THEN @ ELSE @ \cup {key},
                                !.aggregated = IF check.changed
                                               THEN Store(@, key, aggregated) ELSE @,
                                !.calls = Append(@, [op |-> "fetch", key |-> key, ok |-> TRUE]),
                                !.arg = IF builds THEN Some(aggregated) ELSE None,
                                !.k = IF builds THEN @ ELSE @ + 1]
           Agg(key, data, check, aggregated) ==
               After(key, data, check, Builds(check.changed, aggregated), aggregated)
           Checked(key, data, check) ==
               Agg(key, data, check,
                   IF check.changed THEN Aggregated(key, data, current_year) ELSE <<>>)
           Got(key, data) ==
               Checked(key, data,
                       data_changed(Val(run).is_ci, key, data,
                                    Val(run).prev_hashes, Val(run).new_hashes))
           Section(key) == Got(key, FetchData(key, rows, current_year))
           Goes(r) ==
               /\ run' = Some(r)
               /\ pc' = IF r.arg # None THEN "build"
                        ELSE IF r.k > Len(Keys) THEN "save" ELSE "fetch"
       IN  Goes(Section(Keys[Val(run).k]))
    /\ UNCHANGED <<domain, current_year, rows, out, hash_file, dashboard>>

\* a fetch whose exception is caught: main goes on with the next domain
FetchFailsCaught ==
    /\ domain = "main" /\ pc = "fetch"
    /\ run' = Some([Val(run) EXCEPT
                       !.calls = Append(@, [op |-> "fetch", key |-> Keys[Val(run).k],
                                            ok |-> FALSE]),
                       !.k = @ + 1])
    /\ pc' = IF Val(run).k = Len(Keys) THEN "save" ELSE "fetch"
    /\ UNCHANGED <<domain, current_year, rows, out, hash_file, dashboard>>

\* the fetch of domain k raises: the exception leaves main
FetchFails ==
    /\ domain = "main" /\ pc = "fetch"
    /\ run' = Some([Val(run) EXCEPT
                       !.calls = Append(@, [op |-> "fetch", key |-> Keys[Val(run).k],
                                            ok |-> FALSE])])
    /\ pc' = "failed"
    /\ UNCHANGED <<domain, current_year, rows, out, hash_file, dashboard>>

\* build_dashboard of domain k returns: the report sheet shows the data
BuildDomain ==
    /\ domain = "main" /\ pc = "build"
    /\ LET Built(key) ==
               /\ dashboard' = [dashboard EXCEPT
                                   ![key] = Some([data |-> Val(run).fetched[key],
                                                  whole |-> TRUE])]
               /\ run' = Some([Val(run) EXCEPT
                                  !.updated = Append(@, ReportTitle(key)),
                                  !.calls = Append(@, [op |-> "build", key |-> key,
                                                       ok |-> TRUE]),
                                  !.arg = None,
                                  !.k = @ + 1])
       IN  Built(Keys[Val(run).k])
    /\ pc' = IF Val(run).k = Len(Keys) THEN "save" ELSE "fetch"
    /\ UNCHANGED <<domain, current_year, rows, out, hash_file>>

\* a call of build_dashboard of domain k raises: the report sheet is as it was
\* (the first call raised) or cleared and written in part; the exception leaves
\* main
BuildFails ==
    /\ domain = "main" /\ pc = "build"
    /\ \E touched \in BOOLEAN :
          dashboard' = IF touched
                       THEN [dashboard EXCEPT
                                ![Keys[Val(run).k]] =
                                    Some([data |-> Val(run).fetched[Keys[Val(run).k]],
                                          whole |-> FALSE])]
                       ELSE dashboard
    /\ run' = Some([Val(run) EXCEPT
                       !.calls = Append(@, [op |-> "build", key |-> Keys[Val(run).k],
                                            ok |-> FALSE])])
    /\ pc' = "failed"
    /\ UNCHANGED <<domain, current_year, rows, out, hash_file>>

\* the end of main: save_hashes(new_hashes) if IS_CI
SaveHashes ==
    /\ domain = "main" /\ pc = "save"
    /\ hash_file' = IF Val(run).is_ci THEN Val(run).new_hashes ELSE hash_file
    /\ pc' = "exited"
    /\ UNCHANGED <<domain, current_year, rows, out, dashboard, run>>

\* the process of main ends, normally or by the exception
ExitMain ==
    /\ domain = "main" /\ pc \in {"exited", "failed"}
    /\ pc' = "idle"
    /\ run' = None
    /\ UNCHANGED <<domain, current_year, rows, out, hash_file, dashboard>>

\* a user places a chart on the report sheet
AddChartByHand ==
    /\ domain = "sheet" /\ pc = "idle" /\ rows.exists
    /\ \E k \in 1..MaxHandCharts :
          /\ \A j \in DOMAIN rows.charts : rows.charts[j] # [by |-> "hand", n |-> k]
          /\ rows' = [rows EXCEPT !.charts = Append(@, [by |-> "hand", n |-> k])]
    /\ UNCHANGED <<domain, current_year, pc, out>>
    /\ UNCHANGED mainVars

\* a user adds a conditional-format rule to the report sheet
AddRuleByHand ==
    /\ domain = "sheet" /\ pc = "idle" /\ rows.exists
    /\ Len(SelectSeq(rows.rules, LAMBDA r : r.build = 0)) < MaxHandRules
    /\ \E k \in 1..(Len(rows.rules) + 1) :
          rows' = [rows EXCEPT !.rules =
                      InsertAt(@, k, [c1 |-> 0, c2 |-> 1, type |-> "CUSTOM_FORMULA",
                                      color |-> "BLUE", build |-> 0])]
    /\ UNCHANGED <<domain, current_year, pc, out>>
    /\ UNCHANGED mainVars

\* main calls build_dashboard of the report
StartBuild ==
    /\ domain = "sheet" /\ pc = "idle" /\ rows.builds < MaxBuilds
    /\ rows' = [rows EXCEPT !.builds = @ + 1]
    /\ out' = [n |-> rows.builds + 1, before |-> rows, meta |-> None, cleanup |-> <<>>]
    /\ pc' = "open"
    /\ UNCHANGED <<domain, current_year>>
    /\ UNCHANGED mainVars

\* dash_sh.sheet1 or get_or_create_sheet: a missing sheet is created
OpenSheet ==
    /\ domain = "sheet" /\ pc = "open"
    /\ rows' = [rows EXCEPT !.exists = TRUE]
    /\ pc' = "clear"
    /\ UNCHANGED <<domain, current_year, out>>
    /\ UNCHANGED mainVars

\* clear_sheet: ws.clear()
ClearValues ==
    /\ domain = "sheet" /\ pc = "clear"
    /\ rows' = [rows EXCEPT !.values = 0]
    /\ pc' = "reset"
    /\ UNCHANGED <<domain, current_year, out>>
    /\ UNCHANGED mainVars

\* clear_sheet: the batch of unmergeCells and repeatCell
ResetFormats ==
    /\ domain = "sheet" /\ pc = "reset"
    /\ rows' = [rows EXCEPT !.formats = 0]
    /\ pc' = "meta"
    /\ UNCHANGED <<domain, current_year, out>>
    /\ UNCHANGED mainVars

\* clear_sheet: fetch_sheet_metadata and the entry of the sheet
FetchMetadata ==
    /\ domain = "sheet" /\ pc = "meta"
    /\ out' = [out EXCEPT !.meta = Some([charts |-> rows.charts,
                                         conditionalFormats |-> Len(rows.rules)])]
    /\ pc' = "cleanup"
    /\ UNCHANGED <<domain, current_year, rows>>
    /\ UNCHANGED mainVars

\* clear_sheet: the batch of cleanup_reqs, if there are any; the run ends when
\* the batch is refused
CleanupSheet ==
    /\ domain = "sheet" /\ pc = "cleanup"
    /\ LET Sent(reqs, after) ==
               IF after = None
               THEN /\ rows' = rows /\ out' = None /\ pc' = "idle"
               ELSE /\ rows' = Val(after)
                    /\ out' = [out EXCEPT !.cleanup = reqs]
                    /\ pc' = "values"
           Batch(reqs) == Sent(reqs, ApplyBatch(rows, reqs))
       IN  Batch(cleanup_reqs(Val(out.meta)))
    /\ UNCHANGED <<domain, current_year>>
    /\ UNCHANGED mainVars

\* build_dashboard: ws.update(all_values, "A1")
WriteValues ==
    /\ domain = "sheet" /\ pc = "values"
    /\ rows' = [rows EXCEPT !.values = out.n]
    /\ pc' = "format"
    /\ UNCHANGED <<domain, current_year, out>>
    /\ UNCHANGED mainVars

\* build_dashboard: the batch of reqs, with the conditional-format rules
ApplyFormats ==
    /\ domain = "sheet" /\ pc = "format"
    /\ LET Sent(after) ==
               IF after = None
               THEN /\ rows' = rows /\ out' = None /\ pc' = "idle"
               ELSE /\ rows' = [Val(after) EXCEPT !.formats = out.n]
                    /\ out' = out
                    /\ pc' = "chart"
       IN  Sent(ApplyBatch(rows, TaggedRequests(FormatRequests(rows.key), out.n)))
    /\ UNCHANGED <<domain, current_year>>
    /\ UNCHANGED mainVars

\* build_dashboard: the batch of the chart request
CreateChart ==
    /\ domain = "sheet" /\ pc = "chart"
    /\ rows' = Val(ApplyBatch(rows, << [op |-> "addChart",
                                        chartId |-> [by |-> "build", n |-> out.n]] >>))
    /\ pc' = "built"
    /\ UNCHANGED <<domain, current_year, out>>
    /\ UNCHANGED mainVars

\* build_dashboard returns
ExitBuild ==
    /\ domain = "sheet" /\ pc = "built"
    /\ pc' = "idle"
    /\ out' = None
    /\ UNCHANGED <<domain, current_year, rows>>
    /\ UNCHANGED mainVars

\* a call of the Sheets API raises: the exception ends the run (clear_sheet with
\* nothing to clean up sends no batch)
SheetCallFails ==
    /\ domain = "sheet"
    /\ pc \in {"open", "clear", "reset", "meta", "cleanup", "values", "format", "chart"}
    /\ pc = "cleanup" => cleanup_reqs(Val(out.meta)) # <<>>
    /\ pc' = "idle"
    /\ out' = None
    /\ UNCHANGED <<domain, current_year, rows>>
    /\ UNCHANGED mainVars

Next ==
    \/ EditPurchaseSheet \/ EditDocSheet \/ EditSellingSheet \/ EditBuyingSheet
    \/ TypePriceCell
    \/ RunWeeklyPurchase \/ RunDocPrice \/ RunCompetitorSelling \/ RunCompetitorBuying
    \/ RunNormalizers
    \/ WriteDateCells \/ WriteOtherCell \/ RunParsers
    \/ EditReportSheet \/ RunPurchaseReport
    \/ AddChartByHand \/ AddRuleByHand \/ StartBuild \/ OpenSheet \/ ClearValues
    \/ ResetFormats \/ FetchMetadata \/ CleanupSheet \/ WriteValues \/ ApplyFormats
    \/ CreateChart \/ ExitBuild \/ SheetCallFails
    \/ ExitRun
    \/ EditSource \/ StartUnattended \/ StartInteractive
    \/ FetchDomain \/ FetchFails \/ BuildDomain \/ BuildFails
    \/ SaveHashes \/ ExitMain

Spec == Init /\ [][Next]_vars

\* the four aggregations
NextAggregates ==
    \/ EditPurchaseSheet \/ EditDocSheet \/ EditSellingSheet \/ EditBuyingSheet
    \/ RunWeeklyPurchase \/ RunDocPrice \/ RunCompetitorSelling \/ RunCompetitorBuying
    \/ ExitRun

InitAggregates == Init /\ domain \in {"purchase", "doc", "selling", "buying"}

SpecAggregates == InitAggregates /\ [][NextAggregates]_vars

\* one domain at a time
NextPurchase == EditPurchaseSheet \/ RunWeeklyPurchase \/ ExitRun

InitPurchase == Init /\ domain = "purchase"

SpecPurchase == InitPurchase /\ [][NextPurchase]_vars

NextCompetitors ==
    \/ EditSellingSheet \/ EditBuyingSheet
    \/ RunCompetitorSelling \/ RunCompetitorBuying \/ ExitRun

InitCompetitors == Init /\ domain \in {"selling", "buying"}

SpecCompetitors == InitCompetitors /\ [][NextCompetitors]_vars

NextSheet ==
    \/ AddChartByHand \/ AddRuleByHand \/ StartBuild \/ OpenSheet \/ ClearValues
    \/ ResetFormats \/ FetchMetadata \/ CleanupSheet \/ WriteValues \/ ApplyFormats
    \/ CreateChart \/ ExitBuild \/ SheetCallFails

InitSheet == Init /\ domain = "sheet"

SpecSheet == InitSheet /\ [][NextSheet]_vars

NextReport == EditReportSheet \/ RunPurchaseReport \/ ExitRun

InitReport == Init /\ domain = "report"

SpecReport == InitReport /\ [][NextReport]_vars

NextDoc == EditDocSheet \/ RunDocPrice \/ ExitRun

InitDoc == Init /\ domain = "doc"

SpecDoc == InitDoc /\ [][NextDoc]_vars

NextSelling == EditSellingSheet \/ RunCompetitorSelling \/ ExitRun

InitSelling == Init /\ domain = "selling"

SpecSelling == InitSelling /\ [][NextSelling]_vars

NextBuying == EditBuyingSheet \/ RunCompetitorBuying \/ ExitRun

InitBuying == Init /\ domain = "buying"

SpecBuying == InitBuying /\ [][NextBuying]_vars

NextPrice == TypePriceCell \/ RunNormalizers \/ ExitRun

InitPrice == Init /\ domain = "price"

SpecPrice == InitPrice /\ [][NextPrice]_vars

NextDate == WriteDateCells \/ WriteOtherCell \/ RunParsers \/ ExitRun

InitDate == Init /\ domain = "date"

SpecDate == InitDate /\ [][NextDate]_vars

\* the runs of main, unattended and interactive
NextMain ==
    \/ EditSource \/ StartUnattended \/ StartInteractive
    \/ FetchDomain \/ FetchFails \/ BuildDomain \/ BuildFails
    \/ SaveHashes \/ ExitMain

InitMain == Init /\ domain = "main"

SpecMain == InitMain /\ [][NextMain]_vars

\* unattended runs only
NextUnattended ==
    \/ EditSource \/ StartUnattended
    \/ FetchDomain \/ FetchFails \/ BuildDomain \/ BuildFails
    \/ SaveHashes \/ ExitMain

SpecUnattended == InitMain /\ [][NextUnattended]_vars


(***************************************************************************)
(* Properties.  Done(d) is the state in which the run of domain d has      *)
(* computed its output from the sheet in rows.                             *)
(***************************************************************************)
Done(d) == pc = "done" /\ domain = d

\* dt is a date of the current year
IsGood(dt) == dt # None /\ Val(dt) \div 10000 = current_year

\* the parsed date of every row of a sheet
ParsedDates(sheet) == [k \in DOMAIN sheet |-> parse_date(sheet[k].date)]

\* the indices of the rows, parsed as dts, whose date is a date of the current year
GoodIndices(dts) == SelectSeq([k \in DOMAIN dts |-> k], LAMBDA k : IsGood(dts[k]))

\* the rows of a sheet, parsed as dts, whose date is a date of the current year
GoodRows(sheet, dts) ==
    LET idx == GoodIndices(dts)
    IN  [n \in DOMAIN idx |-> sheet[idx[n]]]

\* the dates of the current year among dts
GoodDates(dts) == {Val(dts[k]) : k \in {n \in DOMAIN dts : IsGood(dts[n])}}

\* v is n / d rounded to a multiple of step (a tie may go either way)
IsRounded(v, n, d, step) == v % step = 0 /\ 2 * Abs(v * d - n) <= step * d

\* x is the percentage (cur - prev) / prev * 100 rounded to one decimal, with
\* its sign, for prev # 0
IsPct(x, cur, prev) ==
    /\ x # None
    /\ Val(x) % (Scale \div 10) = 0
    /\ 2 * Abs((Val(x) \div (Scale \div 10)) * prev - (cur - prev) * 1000) <= Abs(prev)

\* C1: in aggregate_weekly, aggregate_weekly_prices, fetch_competitor_data and
\* fetch_buying_data a row contributes only if its date parses and lies in the
\* current year: every date in the output is the date of such a row, and the
\* output is what the stage returns for the sheet without the other rows.
C1_YearGate ==
    /\ Done("purchase") =>
          LET dts == ParsedDates(rows)
              good == GoodRows(rows, dts)
              dates == GoodDates(dts)
          IN  /\ \A i \in DOMAIN out.weeks :
                    out.weeks[i].start \in dates /\ out.weeks[i].end \in dates
              /\ out.weeks = aggregate_weekly(good, current_year)
              /\ Len(out.weeks) <= Len(good)
    /\ Done("doc") =>
          LET dts == ParsedDates(rows)
              good == GoodRows(rows, dts)
              dates == GoodDates(dts)
          IN  /\ \A i \in DOMAIN out.price_weeks :
                    out.price_weeks[i].start \in dates /\ out.price_weeks[i].end \in dates
              /\ out.price_weeks = aggregate_weekly_prices(good, current_year)
              /\ Len(out.price_weeks) <= Len(good)
    /\ Done("selling") =>
          LET dts == [k \in DOMAIN rows |-> ParsedDates(rows[k])]
              good == [k \in DOMAIN rows |-> GoodRows(rows[k], dts[k])]
              dates == UNION {GoodDates(dts[k]) : k \in DOMAIN rows}
          IN  /\ \A i \in DOMAIN out.comp_records : out.comp_records[i].date \in dates
              /\ out.comp_records = fetch_competitor_data(good, current_year)
              /\ Len(out.comp_records) <= Len(Concat(good))
    /\ Done("buying") =>
          LET dts == ParsedDates(rows)
              good == GoodRows(rows, dts)
              dates == GoodDates(dts)
          IN  /\ \A i \in DOMAIN out.buying_records : out.buying_records[i].date \in dates
              /\ out.buying_records = fetch_buying_data(good, current_year)
              /\ Len(out.buying_records) <= Len(good)

\* a purchase sheet with an unparseable date, a date of another year and a date of
\* the current year, of which one row reached the output
C1_Witness ==
    /\ Done("purchase")
    /\ Len(rows) = 3
    /\ \E k \in DOMAIN rows : parse_date(rows[k].date) = None
    /\ \E k \in DOMAIN rows :
          parse_date(rows[k].date) # None /\ ~IsGood(parse_date(rows[k].date))
    /\ Len(GoodIndices(ParsedDates(rows))) = 1
    /\ Len(out.weeks) = 1
    /\ out.weeks[1].birds > 0

\* the indices of the rows, parsed as dts, that are kept and lie in the ISO week
WeekIndices(dts, year, week) ==
    SelectSeq([k \in DOMAIN dts |-> k],
              LAMBDA k : IsGood(dts[k]) /\ isocalendar(Val(dts[k])) = <<year, week>>)

\* the DOC row holds a positive price
Priced(r) == \E k \in DOMAIN r.prices : safe_float(r.prices[k]) > 0

\* the records of a (date, location) bucket that hold a price
RecordsOfGroup(records, date, location) ==
    SelectSeq(records,
              LAMBDA r : /\ r.date = date /\ r.location = location
                         /\ \E p \in ProductSet : r.price[p] # None)

\* C2: the rows of aggregate_weekly, aggregate_weekly_prices and
\* aggregate_by_date_location are in strictly ascending key order, so no key is in
\* two rows, and a row holds all the records of its key: every contributing record
\* has a row of its key, and the row counts or sums all records of the key.
C2_SortedBuckets ==
    /\ Done("purchase") =>
          LET w == out.weeks
              dts == ParsedDates(rows)
          IN  /\ \A i \in 1..(Len(w) - 1) :
                    \/ w[i].year < w[i + 1].year
                    \/ w[i].year = w[i + 1].year /\ w[i].week < w[i + 1].week
              /\ \A i, j \in DOMAIN w :
                    i # j => <<w[i].year, w[i].week>> # <<w[j].year, w[j].week>>
              /\ \A k \in DOMAIN rows :
                    IsGood(dts[k]) =>
                       \E i \in DOMAIN w : <<w[i].year, w[i].week>> = isocalendar(Val(dts[k]))
              /\ \A i \in DOMAIN w :
                    LET sel == WeekIndices(dts, w[i].year, w[i].week)
                    IN  /\ sel # <<>>
                        /\ w[i].birds =
                              SumSeq([n \in DOMAIN sel |->
                                         IF rows[sel[n]].birds # <<>>
                                         THEN TruncInt(safe_float(rows[sel[n]].birds)) ELSE 0])
    /\ Done("doc") =>
          LET w == out.price_weeks
              dts == ParsedDates(rows)
          IN  /\ \A i \in 1..(Len(w) - 1) :
                    \/ w[i].year < w[i + 1].year
                    \/ w[i].year = w[i + 1].year /\ w[i].week < w[i + 1].week
              /\ \A i, j \in DOMAIN w :
                    i # j => <<w[i].year, w[i].week>> # <<w[j].year, w[j].week>>
              /\ \A k \in DOMAIN rows :
                    IsGood(dts[k]) /\ Priced(rows[k]) =>
                       \E i \in DOMAIN w : <<w[i].year, w[i].week>> = isocalendar(Val(dts[k]))
              /\ \A i \in DOMAIN w :
                    w[i].entries =
                       Len(SelectSeq(WeekIndices(dts, w[i].year, w[i].week),
                                     LAMBDA k : Priced(rows[k])))
    /\ Done("selling") =>
          LET a == out.comp_aggregated
              recs == out.comp_records
          IN  /\ \A i \in 1..(Len(a) - 1) :
                    \/ a[i].date < a[i + 1].date
                    \/ a[i].date = a[i + 1].date /\ TextLess(a[i].location, a[i + 1].location)
              /\ \A i, j \in DOMAIN a :
                    i # j => <<a[i].date, a[i].location>> # <<a[j].date, a[j].location>>
              /\ \A k \in DOMAIN recs :
                    RecordsOfGroup(<<recs[k]>>, recs[k].date, recs[k].location) # <<>> =>
                       \E i \in DOMAIN a :
                          a[i].date = recs[k].date /\ a[i].location = recs[k].location
              /\ \A i \in DOMAIN a :
                    LET sel == RecordsOfGroup(recs, a[i].date, a[i].location)
                    IN  /\ sel # <<>>
                        /\ a[i].comp_brands =
                              Cardinality({sel[k].brand : k \in {n \in DOMAIN sel :
                                                                   ~IsPullus(sel[n].brand)}})

\* a purchase sheet whose rows are not in date order: two rows of one week after a
\* row of a later week, aggregated into two rows
C2_Witness ==
    /\ Done("purchase")
    /\ Len(rows) = 3
    /\ Len(out.weeks) = 2
    /\ Len(WeekIndices(ParsedDates(rows), out.weeks[1].year, out.weeks[1].week)) = 2
    /\ isocalendar(Val(parse_date(rows[1].date))) = <<out.weeks[2].year, out.weeks[2].week>>
    /\ out.weeks[1].birds = 1100

\* C3: in aggregate_weekly and aggregate_weekly_prices the deltas of every output
\* row after the first are computed from the row before it in the output, whether
\* or not the two ISO weeks are consecutive.
C3_DeltaFromPriorRow ==
    /\ Done("purchase") =>
          \A i \in 2..Len(out.weeks) :
             LET cur == out.weeks[i]
                 prev == out.weeks[i - 1]
             IN  /\ IF prev.avg_birds_day = 0 THEN cur.birds_wow = None
                    ELSE IsPct(cur.birds_wow, cur.avg_birds_day, prev.avg_birds_day)
                 /\ IF prev.avg_wt_day = 0 THEN cur.wt_wow = None
                    ELSE IsPct(cur.wt_wow, cur.avg_wt_day, prev.avg_wt_day)
    /\ Done("doc") =>
          \A i \in 2..Len(out.price_weeks) :
             LET cur == out.price_weeks[i]
                 prev == out.price_weeks[i - 1]
             IN  IF prev.avg_price = 0 THEN cur.wow_pct = None /\ cur.wow_abs = None
                 ELSE /\ IsPct(cur.wow_pct, cur.avg_price, prev.avg_price)
                      /\ cur.wow_abs = Some(cur.avg_price - prev.avg_price)

\* three purchase weeks, no two of them consecutive: the second has deltas against
\* the first, and the third, whose prior row has zero averages, has none although
\* the first row's averages are not zero
C3_Witness ==
    /\ Done("purchase")
    /\ Len(out.weeks) = 3
    /\ \A i \in 2..3 :
          \/ out.weeks[i].year = out.weeks[i - 1].year /\ out.weeks[i].week > out.weeks[i - 1].week + 1
          \/ out.weeks[i].year > out.weeks[i - 1].year /\ out.weeks[i - 1].week < 52
    /\ out.weeks[1].avg_birds_day # 0
    /\ out.weeks[2].birds_wow # None
    /\ out.weeks[2].avg_birds_day = 0
    /\ out.weeks[3].birds_wow = None

\* the present prices of one side (Pullus or the competitors) of a bucket for a product
SidePrices(records, date, location, p, own) ==
    LET sel == SelectSeq(records,
                         LAMBDA r : /\ r.date = date /\ r.location = location
                                    /\ IsPullus(r.brand) = own
                                    /\ r.price[p] # None)
    IN  [k \in DOMAIN sel |-> Val(sel[k].price[p])]

\* x is the mean of prices rounded to a whole number, None for no prices
IsMeanOrNone(x, prices) ==
    IF prices = <<>> THEN x = None
    ELSE x # None /\ IsRounded(Val(x), SumSeq(prices), Len(prices), Scale)

\* C4: in aggregate_by_date_location the Pullus mean and the competitor mean of a
\* bucket and product are the means of the present prices of that side, and None
\* (not zero) when the side has no present price.
C4_MeansOfPresentPrices ==
    Done("selling") =>
       \A i \in DOMAIN out.comp_aggregated : \A p \in ProductSet :
          LET g == out.comp_aggregated[i]
          IN  /\ IsMeanOrNone(g.pullus[p],
                              SidePrices(out.comp_records, g.date, g.location, p, TRUE))
              /\ IsMeanOrNone(g.comp_avg[p],
                              SidePrices(out.comp_records, g.date, g.location, p, FALSE))

\* a bucket with a Pullus mean and a competitor mean for one product and, for the
\* other product, a Pullus mean but no competitor price
C4_Witness ==
    /\ Done("selling")
    /\ \E i \in DOMAIN out.comp_aggregated :
          LET g == out.comp_aggregated[i]
          IN  /\ g.pullus["Whole Chicken"] # None /\ g.comp_avg["Whole Chicken"] # None
              /\ g.pullus["Gizzard"] # None /\ g.comp_avg["Gizzard"] = None
              /\ Len(SidePrices(out.comp_records, g.date, g.location, "Whole Chicken", FALSE)) = 2


\* C5 as stated: diff_pct of a bucket and product is None whenever the competitor
\* mean is None or zero, and otherwise is the rounded percentage
\* (Pullus mean - competitor mean) / competitor mean * 100.
C5_DiffUnlessCompetitorMissing ==
    Done("selling") =>
       \A i \in DOMAIN out.comp_aggregated : \A p \in ProductSet :
          LET g == out.comp_aggregated[i]
          IN  IF g.comp_avg[p] = None \/ Val(g.comp_avg[p]) = 0
              THEN g.diff_pct[p] = None
              ELSE /\ g.diff_pct[p] # None
                   /\ g.pullus[p] # None =>
                         IsPct(g.diff_pct[p], Val(g.pullus[p]), Val(g.comp_avg[p]))

\* C5, amended: diff_pct of a bucket and product is None whenever the competitor
\* mean or the Pullus mean is None or zero, and otherwise is the percentage
\* (Pullus mean - competitor mean) / competitor mean * 100 rounded to one decimal,
\* with its sign.
C5_DiffNeedsBothMeans ==
    Done("selling") =>
       \A i \in DOMAIN out.comp_aggregated : \A p \in ProductSet :
          LET g == out.comp_aggregated[i]
          IN  IF \/ g.comp_avg[p] = None \/ Val(g.comp_avg[p]) = 0
                 \/ g.pullus[p] = None \/ Val(g.pullus[p]) = 0
              THEN g.diff_pct[p] = None
              ELSE IsPct(g.diff_pct[p], Val(g.pullus[p]), Val(g.comp_avg[p]))

\* a bucket whose Pullus mean is below its competitor mean, with a negative
\* diff_pct, and a bucket with a competitor mean, no Pullus price and no diff_pct
C5_Witness ==
    /\ Done("selling")
    /\ \E i \in DOMAIN out.comp_aggregated :
          LET g == out.comp_aggregated[i]
          IN  g.diff_pct["Whole Chicken"] # None /\ Val(g.diff_pct["Whole Chicken"]) < 0
    /\ \E i \in DOMAIN out.comp_aggregated :
          LET g == out.comp_aggregated[i]
          IN  /\ g.comp_avg["Whole Chicken"] # None /\ Val(g.comp_avg["Whole Chicken"]) > 0
              /\ g.pullus["Whole Chicken"] = None
              /\ g.diff_pct["Whole Chicken"] = None

\* C6: compute_summary reports avg_pullus (avg_comp) as None, not zero, when no
\* Dressed Birds record has a Pullus (competitor) price.
C6_AveragesAbsentNotZero ==
    Done("buying") /\ out.summary # None =>
       LET dressed == SelectSeq(out.buying_records,
                                LAMBDA r : r.product_type = T_Dressed_Birds)
       IN  /\ (\A k \in DOMAIN dressed : dressed[k].pullus_price = None)
                 => Val(out.summary).avg_pullus = None
           /\ (\A k \in DOMAIN dressed : dressed[k].comp_price = None)
                 => Val(out.summary).avg_comp = None

\* C7: every percentage of the pipeline is None when its denominator is zero or
\* missing: the week-over-week deltas of aggregate_weekly and
\* aggregate_weekly_prices, diff_pct of aggregate_by_date_location, premium_pct of
\* the competitor-selling summary and diff_pct of compute_summary.
C7_NoneOnZeroDenominator ==
    /\ Done("purchase") =>
          \A i \in DOMAIN out.weeks :
             /\ (i = 1 \/ out.weeks[IF i = 1 THEN 1 ELSE i - 1].avg_birds_day = 0)
                   => out.weeks[i].birds_wow = None
             /\ (i = 1 \/ out.weeks[IF i = 1 THEN 1 ELSE i - 1].avg_wt_day = 0)
                   => out.weeks[i].wt_wow = None
    /\ Done("doc") =>
          \A i \in DOMAIN out.price_weeks :
             (i = 1 \/ out.price_weeks[IF i = 1 THEN 1 ELSE i - 1].avg_price = 0)
                => out.price_weeks[i].wow_pct = None
    /\ Done("selling") =>
          /\ \A i \in DOMAIN out.comp_aggregated : \A p \in ProductSet :
                LET g == out.comp_aggregated[i]
                IN  (g.comp_avg[p] = None \/ Val(g.comp_avg[p]) = 0) => g.diff_pct[p] = None
          /\ out.summary # None =>
                (Val(Val(out.summary).latest_comp_wc) = 0
                    => Val(out.summary).premium_pct = None)
    /\ Done("buying") /\ out.summary # None =>
          (Val(Val(out.summary).avg_comp) = 0 => Val(out.summary).diff_pct = None)

Slash == <<"/">>
Dash == <<" ", "-", " ">>

\* the text is a number: digits, with or without thousands separators, a minus
\* sign before them or not, white space around them or not
NumberText(t) ==
    LET u == Remove(Strip(t), ",")
    IN  /\ u # <<>>
        /\ IF Head(u) = "-" THEN Len(u) > 1 /\ AllDigits(Tail(u)) ELSE AllDigits(u)

\* the number a number text denotes
NumberValue(t) ==
    LET u == Remove(Strip(t), ",")
    IN  IF Head(u) = "-" THEN -(Num(Tail(u)) * Scale) ELSE Num(u) * Scale

\* the positive numbers among the parts of a range; a part that is no number is
\* no positive number
PositiveValues(parts) ==
    SelectSeq([k \in DOMAIN parts |-> IF NumberText(parts[k]) THEN NumberValue(parts[k]) ELSE 0],
              LAMBDA v : v > 0)

\* the text is 'A sep B' with A and B positive numbers
RangeForm(t, sep) ==
    LET parts == Split(Strip(t), sep)
    IN  /\ Len(parts) = 2
        /\ \A k \in DOMAIN parts : NumberText(parts[k]) /\ NumberValue(parts[k]) > 0

\* C8 as stated: each normalizer returns round((A+B)/2) for 'A - B' and for
\* 'A/B' with A and B positive.
C8_MeanOfEitherForm ==
    Done("price") =>
       \A sep \in {Slash, Dash} :
          RangeForm(Concat(rows), sep) =>
             LET ab == PositiveValues(Split(Strip(Concat(rows)), sep))
             IN  IsMeanOrNone(out.selling, ab) /\ IsMeanOrNone(out.buying, ab)

\* C8, amended: parse_price returns round((A+B)/2) for 'A/B' and
\* parse_buying_price for 'A - B', A and B positive, and each returns None for the
\* form of the other; of a text with the normalizer's own separator the
\* non-positive parts are discarded, the result is the rounded mean of the parts
\* that remain and None if none remains.
C8_MeanOfOwnForm ==
    Done("price") =>
       LET t == Strip(Concat(rows))
           u == Remove(t, ",")
       IN  /\ RangeForm(t, Slash) =>
                 /\ IsMeanOrNone(out.selling, PositiveValues(Split(t, Slash)))
                 /\ out.selling # None
                 /\ out.buying = None
           /\ RangeForm(t, Dash) =>
                 /\ IsMeanOrNone(out.buying, PositiveValues(Split(t, Dash)))
                 /\ out.buying # None
                 /\ out.selling = None
           /\ Contains(t, Slash) =>
                 IsMeanOrNone(out.selling, PositiveValues(Split(t, Slash)))
           /\ Contains(u, Dash) =>
                 IsMeanOrNone(out.buying, PositiveValues(Split(u, Dash)))

\* the cell '3,300 - 3501': parse_buying_price returns 3400, the mean 3400.5
\* rounded, and parse_price returns None
C8_Witness ==
    /\ Done("price")
    /\ rows = << <<"3", ",", "3", "0", "0">>, Dash, <<"3", "5", "0", "1">> >>
    /\ out.buying = Some(3400 * Scale)
    /\ out.selling = None

\* C9: both normalizers return a single positive number unchanged, with or without
\* thousands separators, and return None for a blank text, white space, a text
\* that is neither a number nor a range, zero and a negative number.
C9_SingleNumberOrNone ==
    Done("price") =>
       LET t == Concat(rows)
       IN  /\ NumberText(t) /\ NumberValue(t) > 0 =>
                 out.selling = Some(NumberValue(t)) /\ out.buying = Some(NumberValue(t))
           /\ \/ Strip(t) = <<>>
              \/ NumberText(t) /\ NumberValue(t) <= 0
              \/ ~NumberText(t) /\ ~Contains(t, Slash) /\ ~Contains(t, Dash)
              => out.selling = None /\ out.buying = None

\* the cell ' 3,300 ': both normalizers return 3300
C9_Witness ==
    /\ Done("price")
    /\ rows = << <<" ">>, <<"3", ",", "3", "0", "0">>, <<" ">> >>
    /\ out.selling = Some(3300 * Scale)
    /\ out.buying = Some(3300 * Scale)

\* C10: purchase_days of a bucket of aggregate_weekly is the number of distinct
\* dates of the kept rows of its ISO week and is at least 1; avg_birds_day is the
\* bucket's birds and avg_wt_day the bucket's total weight divided by it.
C10_DistinctPurchaseDays ==
    Done("purchase") =>
       LET dts == ParsedDates(rows)
       IN  \A i \in DOMAIN out.weeks :
              LET w == out.weeks[i]
                  sel == WeekIndices(dts, w.year, w.week)
                  days == Cardinality({Val(dts[sel[n]]) : n \in DOMAIN sel})
              IN  /\ w.purchase_days = days
                  /\ w.purchase_days >= 1
                  /\ IsRounded(w.avg_birds_day, w.birds * Scale, days, Scale \div 10)
                  /\ IsRounded(w.avg_wt_day, w.total_wt, days, 1)

\* a week of three rows on two days
C10_Witness ==
    /\ Done("purchase")
    /\ \E i \in DOMAIN out.weeks :
          /\ Len(WeekIndices(ParsedDates(rows), out.weeks[i].year, out.weeks[i].week)) = 3
          /\ out.weeks[i].purchase_days = 2
          /\ out.weeks[i].avg_birds_day = 650 * Scale


\* the purchase row's bird count as aggregate_weekly reads it
BirdsOf(row) == IF row.birds # <<>> THEN TruncInt(safe_float(row.birds)) ELSE 0

\* the rows of the specification's example: (100 birds, 50.0 kg, 10.0 kg) on Monday
\* 6 January 2025 and (200 birds, 90.0 kg, 15.0 kg) on Wednesday 8 January 2025
ExampleRows ==
    << [date |-> <<"0", "6", "-", "J", "a", "n", "-", "2", "0", "2", "5">>, birds |-> <<"1", "0", "0">>, chicken_wt |-> <<"5", "0", ".", "0">>, gizzard_wt |-> <<"1", "0", ".", "0">>],
       [date |-> <<"2", "0", "2", "5", "-", "0", "1", "-", "0", "8">>, birds |-> <<"2", "0", "0">>, chicken_wt |-> <<"9", "0", ".", "0">>, gizzard_wt |-> <<"1", "5", ".", "0">>] >>

\* C11: in aggregate_weekly the birds, chicken_wt and gizzard_wt of a bucket are
\* the sums of the values of exactly the kept rows of its ISO week, so the totals
\* over the buckets are the totals over the kept rows; the two rows of the example
\* give one bucket with birds 300, chicken_wt 140.0, gizzard_wt 25.0,
\* purchase_days 2 and avg_birds_day 150.0.
C11_BucketSums ==
    Done("purchase") =>
       LET dts == ParsedDates(rows)
           w == out.weeks
           good == GoodIndices(dts)
       IN  /\ \A i \in DOMAIN w :
                 LET sel == WeekIndices(dts, w[i].year, w[i].week)
                 IN  /\ w[i].birds = SumSeq([n \in DOMAIN sel |-> BirdsOf(rows[sel[n]])])
                     /\ w[i].chicken_wt =
                           SumSeq([n \in DOMAIN sel |-> safe_float(rows[sel[n]].chicken_wt)])
                     /\ w[i].gizzard_wt =
                           SumSeq([n \in DOMAIN sel |-> safe_float(rows[sel[n]].gizzard_wt)])
           /\ SumSeq([i \in DOMAIN w |-> w[i].birds])
                 = SumSeq([n \in DOMAIN good |-> BirdsOf(rows[good[n]])])
           /\ SumSeq([i \in DOMAIN w |-> w[i].chicken_wt])
                 = SumSeq([n \in DOMAIN good |-> safe_float(rows[good[n]].chicken_wt)])
           /\ SumSeq([i \in DOMAIN w |-> w[i].gizzard_wt])
                 = SumSeq([n \in DOMAIN good |-> safe_float(rows[good[n]].gizzard_wt)])
           /\ rows = ExampleRows /\ current_year = 2025 =>
                 /\ Len(w) = 1
                 /\ w[1].birds = 300
                 /\ w[1].chicken_wt = 140 * Scale
                 /\ w[1].gizzard_wt = 25 * Scale
                 /\ w[1].purchase_days = 2
                 /\ w[1].avg_birds_day = 150 * Scale

\* the run on the two rows of the example, aggregated into one bucket of 300 birds
C11_Witness ==
    /\ Done("purchase")
    /\ current_year = 2025
    /\ rows = ExampleRows
    /\ Len(out.weeks) = 1
    /\ out.weeks[1].birds = 300


\* C12: the first row of a sorted weekly series has no week-over-week fields
\* (birds_wow and wt_wow in aggregate_weekly, wow_pct and wow_abs in
\* aggregate_weekly_prices); every later row of aggregate_weekly_prices whose
\* previous row has a nonzero avg_price has wow_abs = avg_price - previous
\* avg_price and wow_pct = (avg_price - previous avg_price) / previous avg_price
\* * 100 rounded to one decimal.
C12_FirstRowHasNoDelta ==
    /\ Done("purchase") /\ out.weeks # <<>> =>
          out.weeks[1].birds_wow = None /\ out.weeks[1].wt_wow = None
    /\ Done("doc") =>
          /\ out.price_weeks # <<>> =>
                out.price_weeks[1].wow_pct = None /\ out.price_weeks[1].wow_abs = None
          /\ \A i \in 2..Len(out.price_weeks) :
                LET cur == out.price_weeks[i]
                    prev == out.price_weeks[i - 1]
                IN  prev.avg_price # 0 =>
                       /\ cur.wow_abs = Some(cur.avg_price - prev.avg_price)
                       /\ IsPct(cur.wow_pct, cur.avg_price, prev.avg_price)

\* two DOC price weeks: the first without deltas, the second with a negative
\* wow_abs and wow_pct against the first
C12_Witness ==
    /\ Done("doc")
    /\ Len(out.price_weeks) = 2
    /\ out.price_weeks[1].wow_pct = None
    /\ out.price_weeks[1].avg_price # 0
    /\ out.price_weeks[2].wow_abs # None /\ Val(out.price_weeks[2].wow_abs) < 0
    /\ out.price_weeks[2].wow_pct # None /\ Val(out.price_weeks[2].wow_pct) < 0


\* a run of main is in progress or has just ended
InRun == domain = "main" /\ run # None

\* the keys of the domains whose section the run has entered with fetched data
Handled == DOMAIN Val(run).fetched

C14_SkipOnlyWhenRedundant ==
    InRun =>
       \A key \in Val(run).skipped :
          \/ /\ dashboard[key] # None
             /\ Val(dashboard[key]).whole
             /\ Val(dashboard[key]).data = Val(run).fetched[key]
          \/ Aggregated(key, Val(run).fetched[key], current_year) = <<>>


\* the fetch calls among the calls of the run
FetchCalls == SelectSeq(Val(run).calls, LAMBDA c : c.op = "fetch")

\* the keys whose build_dashboard returned in this run
BuiltKeys == {Val(run).calls[j].key : j \in {i \in DOMAIN Val(run).calls :
                                                Val(run).calls[i].op = "build"
                                                /\ Val(run).calls[i].ok}}

\* C15: the four domains are processed one after another in the order weekly
\* purchase, DOC price, competitor selling, competitor buying; when an external
\* call fails while a domain is fetched or rendered, the error is neither caught
\* nor retried, the run ends, no later domain is fetched or rendered, and the
\* reports of the domains fully rendered before the failure stay as written.
C15_InOrderAndFatal ==
    InRun =>
       LET r == Val(run)
       IN  /\ Len(FetchCalls) <= Len(Keys)
           /\ \A i \in DOMAIN FetchCalls : FetchCalls[i].key = Keys[i]
           /\ \A j \in DOMAIN r.calls :
                 /\ r.calls[j].op = "build" =>
                       /\ j > 1
                       /\ r.calls[j - 1] = [op |-> "fetch", key |-> r.calls[j].key, ok |-> TRUE]
                 /\ ~r.calls[j].ok => j = Len(r.calls) /\ pc = "failed"
           /\ pc = "failed" =>
                 /\ r.calls # <<>> /\ ~r.calls[Len(r.calls)].ok
                 /\ hash_file = r.stored
                 /\ \A key \in BuiltKeys :
                       dashboard[key] = Some([data |-> r.fetched[key], whole |-> TRUE])
                 /\ \A i \in (Len(FetchCalls) + 1)..Len(Keys) :
                       dashboard[Keys[i]] = r.before[Keys[i]]

\* a run that rendered the weekly purchase report, then failed in a call for a
\* later domain and ended before the last domain
C15_Witness ==
    /\ InRun
    /\ pc = "failed"
    /\ "weekly_purchase" \in BuiltKeys
    /\ Val(run).before["weekly_purchase"] # dashboard["weekly_purchase"]
    /\ Len(FetchCalls) \in 2..3


\* the aggregation of the data fetched for the key in this run returned nothing
AggregatesToNothing(key) ==
    key \in DOMAIN Val(run).aggregated /\ Val(run).aggregated[key] = <<>>

\* C16: when the aggregate result of a domain is empty, build_dashboard is not
\* invoked for it and the run goes on with the next domain: build_dashboard is
\* never called with an empty sequence and the report sheet of that domain is
\* left untouched.
C16_EmptyAggregateSkipsBuild ==
    InRun =>
       LET r == Val(run)
       IN  /\ pc = "build" => r.arg # None /\ Val(r.arg) # <<>>
           /\ \A j \in DOMAIN r.calls :
                 r.calls[j].op = "build" => ~AggregatesToNothing(r.calls[j].key)
           /\ \A j \in DOMAIN r.calls :
                 LET key == r.calls[j].key
                 IN  r.calls[j].op = "fetch" /\ r.calls[j].ok /\ AggregatesToNothing(key) =>
                        /\ dashboard[key] = r.before[key]
                        /\ ReportTitle(key) \notin SeqToSet(r.updated)
                        /\ IF j < Len(r.calls)
                           THEN r.calls[j + 1].op = "fetch"
                           ELSE IF key = Keys[Len(Keys)] THEN pc \in {"save", "exited"}
                           ELSE pc = "fetch" /\ Keys[r.k - 1] = key

\* an interactive run over a dashboard with a DOC price report: the data fetched
\* for DOC price aggregates to nothing, its report is as it was, and the run went
\* on to build the report of the next domain
C16_Witness ==
    /\ InRun
    /\ ~Val(run).is_ci
    /\ AggregatesToNothing("doc_price")
    /\ dashboard["doc_price"] # None
    /\ "competitor_selling" \in BuiltKeys


\* the date text '31 Feb 2025'
Feb31 == <<"3", "1", " ", "F", "e", "b", " ", "2", "0", "2", "5">>

\* C17: parse_date and safe_float never raise, whatever the input, a value that
\* is no str included: a malformed text yields None, respectively 0.0; a row
\* whose date text is an invalid calendar date such as '31 Feb 2025' is excluded
\* from the aggregation and all other rows of the input are aggregated.
C17_NeverRaise ==
    /\ Done("date") =>
          \A i \in DOMAIN rows :
             /\ out.dates[i] = None \/ Len(out.dates[i]) = 1
             /\ out.numbers[i] \in Int
             /\ rows[i].fmt = 0 => out.dates[i] = None
             /\ IsStr(rows[i].cell) /\ ~NumberText(rows[i].cell) => out.numbers[i] = 0
    /\ Done("purchase") =>
          LET others == SelectSeq(rows, LAMBDA r : r.date # Feb31)
          IN  /\ out.weeks = aggregate_weekly(others, current_year)
              /\ SumSeq([i \in DOMAIN out.weeks |-> out.weeks[i].birds])
                    = SumSeq([k \in DOMAIN others |->
                                 IF IsGood(parse_date(others[k].date))
                                 THEN BirdsOf(others[k]) ELSE 0])


\* the index of "%d/%m/%Y" in DateFormats
DayMonthYear == CHOOSE k \in DOMAIN DateFormats : DateFormats[k] = <<"%d", "/", "%m", "/", "%Y">>

\* the date dt with its day and month exchanged
Swapped(dt) == DateOf(YearOf(dt), DayOf(dt), MonthOf(dt))

\* no format of parse_date matches the text
MatchesNoFormat(text) ==
    \A k \in DOMAIN DateFormats : strptime(Strip(text), DateFormats[k]) = None

\* C18 as stated: for every calendar date and every pair of supported formats,
\* parse_date of the date written in either format returns the same calendar
\* date, the date written; a text that matches none of the formats returns None.
C18_SameDateInEveryFormat ==
    Done("date") =>
       /\ \A i \in DOMAIN rows : rows[i].fmt # 0 => out.dates[i] = Some(rows[i].date)
       /\ \A i, j \in DOMAIN rows :
             rows[i].fmt # 0 /\ rows[j].fmt # 0 => out.dates[i] = out.dates[j]
       /\ \A i \in DOMAIN rows :
             IsStr(rows[i].cell) /\ MatchesNoFormat(rows[i].cell) => out.dates[i] = None

\* C18, amended: parse_date returns the date written for every supported format
\* but "%d/%m/%Y"; a date written as "%d/%m/%Y" is returned as written only if
\* its day is above 12 or equals its month, and otherwise is read as "%m/%d/%Y",
\* the format tried first, with day and month exchanged; a text that matches
\* none of the formats returns None.
C18_SameDateButDayMonthYear ==
    Done("date") =>
       /\ \A i \in DOMAIN rows :
             rows[i].fmt # 0 =>
                LET dt == rows[i].date
                IN  IF rows[i].fmt = DayMonthYear /\ DayOf(dt) <= 12
                    THEN out.dates[i] = Some(Swapped(dt))
                    ELSE out.dates[i] = Some(dt)
       /\ \A i, j \in DOMAIN rows :
             /\ rows[i].fmt \notin {0, DayMonthYear}
             /\ rows[j].fmt \notin {0, DayMonthYear}
             => out.dates[i] = out.dates[j]
       /\ \A i \in DOMAIN rows :
             IsStr(rows[i].cell) /\ MatchesNoFormat(rows[i].cell) => out.dates[i] = None

\* 6 January 2025 written as '06/01/2025' and as '2025-01-06': the first is read
\* as 1 June 2025, the second as written
C18_Witness ==
    /\ Done("date")
    /\ Len(rows) = 2
    /\ rows[1].date = 20250106 /\ rows[1].fmt = DayMonthYear
    /\ rows[2].cell = <<"2", "0", "2", "5", "-", "0", "1", "-", "0", "6">>
    /\ out.dates = <<Some(20250601), Some(20250106)>>


\* C19: in the DOC price report the year-to-date high (low) is the maximum of
\* max_price (minimum of min_price) over all weekly rows, and the week named as
\* its owner is the first row in sorted order that attains it, also when several
\* weeks share the extreme value.
C19_FirstWeekOwnsExtreme ==
    Done("doc") /\ out.summary # None =>
       LET w == out.price_weeks
           sm == Val(out.summary)
       IN  /\ \A i \in DOMAIN w : w[i].max_price <= sm.ytd_high /\ w[i].min_price >= sm.ytd_low
           /\ \E i \in DOMAIN w :
                 /\ sm.ytd_high_week = w[i]
                 /\ w[i].max_price = sm.ytd_high
                 /\ \A j \in 1..(i - 1) : w[j].max_price < sm.ytd_high
           /\ \E i \in DOMAIN w :
                 /\ sm.ytd_low_week = w[i]
                 /\ w[i].min_price = sm.ytd_low
                 /\ \A j \in 1..(i - 1) : w[j].min_price > sm.ytd_low

\* three weeks of which the first two share the highest max_price and the third
\* has the lowest min_price: the first week owns the high, the third the low
C19_Witness ==
    /\ Done("doc")
    /\ Len(out.price_weeks) = 3
    /\ out.price_weeks[1].max_price = out.price_weeks[2].max_price
    /\ out.price_weeks[1].min_price = out.price_weeks[2].min_price
    /\ out.price_weeks[3].max_price < out.price_weeks[1].max_price
    /\ out.price_weeks[3].min_price < out.price_weeks[1].min_price
    /\ Val(out.summary).ytd_high_week = out.price_weeks[1]
    /\ Val(out.summary).ytd_low_week = out.price_weeks[3]


(***************************************************************************)
(* The weekly purchase report.                                             *)
(***************************************************************************)
\* the last row of the aggregate the report was built from
LatestRow == out.weeks[Len(out.weeks)]

\* C20: in the weekly purchase report the summary card's birds Avg/Day WoW equals
\* birds_wow of the latest row for every pair of latest and previous weeks, and
\* is N/A exactly when that row's birds_wow is absent.
C20_CardEqualsLatestRow ==
    Done("report") /\ out.cards # None =>
       Val(out.cards).birds_wow = LatestRow.birds_wow

\* the card is N/A exactly when birds_wow of the latest row is absent
C20_CardAbsentWithRow ==
    Done("report") /\ out.cards # None =>
       (Val(out.cards).birds_wow = None <=> LatestRow.birds_wow = None)


(***************************************************************************)
(* Own and competitor records of competitor selling.                       *)
(***************************************************************************)
\* the brand is spelled p-u-l-l-u-s, each letter in either case
OwnBrand(brand) ==
    /\ Len(brand) = 6
    /\ brand[1] \in {"p", "P"} /\ brand[2] \in {"u", "U"} /\ brand[3] \in {"l", "L"}
    /\ brand[4] \in {"l", "L"} /\ brand[5] \in {"u", "U"} /\ brand[6] \in {"s", "S"}

\* the present prices for product p of the records of a bucket whose brand is
\* (own) or is not (~own) the own brand
PricesOf(records, date, location, p, own) ==
    LET sel == SelectSeq(records,
                         LAMBDA r : /\ r.date = date /\ r.location = location
                                    /\ OwnBrand(r.brand) = own
                                    /\ r.price[p] # None)
    IN  [k \in DOMAIN sel |-> Val(sel[k].price[p])]

\* the brands of the records of a bucket that are not the own brand and hold a
\* present price
CompetitorBrands(records, date, location) ==
    {records[k].brand : k \in {n \in DOMAIN records :
        /\ records[n].date = date /\ records[n].location = location
        /\ ~OwnBrand(records[n].brand)
        /\ \E p \in ProductSet : records[n].price[p] # None}}

\* C21: in aggregate_by_date_location a record is own exactly when its brand
\* equals 'pullus' compared case-insensitively: the Pullus mean of a bucket and
\* product is the mean of the prices of the records so spelled and of no other
\* record, the competitor mean is the mean of the prices of all other records
\* and of no own record, and no own record is counted in comp_brands.
C21_OwnIffPullusAnyCase ==
    Done("selling") =>
       \A i \in DOMAIN out.comp_aggregated :
          LET g == out.comp_aggregated[i]
          IN  /\ \A p \in ProductSet :
                    /\ IsMeanOrNone(g.pullus[p],
                                    PricesOf(out.comp_records, g.date, g.location, p, TRUE))
                    /\ IsMeanOrNone(g.comp_avg[p],
                                    PricesOf(out.comp_records, g.date, g.location, p, FALSE))
              /\ g.comp_brands <= Cardinality(CompetitorBrands(out.comp_records, g.date, g.location))
              /\ g.comp_brands = 0 <=>
                    CompetitorBrands(out.comp_records, g.date, g.location) = {}

\* a bucket with an own record in upper case, a bucket with an own record in
\* mixed case next to a competitor whose brand only starts with the own brand,
\* and a bucket of own records only
C21_Witness ==
    /\ Done("selling")
    /\ \E k \in DOMAIN out.comp_records :
          out.comp_records[k].brand = <<"P", "U", "L", "L", "U", "S">>
    /\ \E i \in DOMAIN out.comp_aggregated :
          LET g == out.comp_aggregated[i]
          IN  /\ g.pullus["Whole Chicken"] = Some(4000 * Scale)
              /\ g.comp_avg["Whole Chicken"] = Some(3600 * Scale)
              /\ g.comp_brands = 1
    /\ \E i \in DOMAIN out.comp_aggregated :
          LET g == out.comp_aggregated[i]
          IN  g.pullus["Whole Chicken"] # None /\ g.comp_brands = 0


(***************************************************************************)
(* The summary of competitor buying.                                       *)
(***************************************************************************)
\* the present values of a price field among the Dressed Birds records
DressedPrices(records, field) ==
    LET sel == SelectSeq(records,
                         LAMBDA r : /\ r.product_type = T_Dressed_Birds
                                    /\ r[field] # None /\ Val(r[field]) # 0)
    IN  [k \in DOMAIN sel |-> Val(sel[k][field])]

\* the records of another product type than Dressed Birds
NotDressed(records) == SelectSeq(records, LAMBDA r : r.product_type # T_Dressed_Birds)

\* C22: compute_summary derives avg_pullus, avg_comp and diff_pct from the
\* Dressed Birds records only: each average is the mean of the present prices of
\* these records, the three figures are those of the summary of the Dressed Birds
\* records alone, diff_pct is (avg_pullus - avg_comp) / avg_comp * 100 rounded to
\* one decimal, and Pullus 4000 against competitor 3400 gives 17.6.
C22_SummaryOfDressedOnly ==
    Done("buying") /\ out.summary # None =>
       LET sm == Val(out.summary)
           alone == compute_summary(SelectSeq(out.buying_records,
                                              LAMBDA r : r.product_type = T_Dressed_Birds))
           pullus_prices == DressedPrices(out.buying_records, "pullus_price")
           comp_prices == DressedPrices(out.buying_records, "comp_price")
       IN  /\ sm.avg_pullus = alone.avg_pullus
           /\ sm.avg_comp = alone.avg_comp
           /\ sm.diff_pct = alone.diff_pct
           /\ pullus_prices # <<>> =>
                 IsRounded(Val(sm.avg_pullus), SumSeq(pullus_prices), Len(pullus_prices), Scale)
           /\ comp_prices # <<>> =>
                 IsRounded(Val(sm.avg_comp), SumSeq(comp_prices), Len(comp_prices), Scale)
           /\ Val(sm.avg_comp) # 0 =>
                 IsPct(sm.diff_pct, Val(sm.avg_pullus), Val(sm.avg_comp))
           /\ (Val(sm.avg_pullus) = 4000 * Scale /\ Val(sm.avg_comp) = 3400 * Scale) =>
                 sm.diff_pct = Some(176 * (Scale \div 10))

\* a Dressed Birds record of Pullus 4000 against competitor 3400 next to a Live
\* Birds record and a record of another product, both with prices: 17.6
C22_Witness ==
    /\ Done("buying") /\ out.summary # None
    /\ Val(out.summary).avg_pullus = Some(4000 * Scale)
    /\ Val(out.summary).avg_comp = Some(3400 * Scale)
    /\ Val(out.summary).diff_pct = Some(176 * (Scale \div 10))
    /\ \E k \in DOMAIN out.buying_records :
          /\ out.buying_records[k].product_type = T_Live_Birds
          /\ out.buying_records[k].pullus_price # None
    /\ \E k \in DOMAIN out.buying_records :
          /\ out.buying_records[k].product_type \notin {T_Live_Birds, T_Dressed_Birds}
          /\ out.buying_records[k].comp_price # None


(***************************************************************************)
(* The report sheets.                                                      *)
(***************************************************************************)
\* the rules the format batch of build n of a report adds, as a set
RulesOfBuild(key, n) ==
    {TaggedRequests(FormatRequests(key), n)[k].rule : k \in DOMAIN FormatRequests(key)}

\* C23: after every completed build of a report, whatever builds ran before and
\* however they ended, the report's sheet holds exactly one embedded chart and
\* only the conditional-format rules the latest build added.
C23_OneChartAndOwnRules ==
    domain = "sheet" /\ pc = "built" =>
       /\ Len(rows.charts) = 1
       /\ rows.charts[1] = [by |-> "build", n |-> out.n]
       /\ Len(rows.rules) = Len(FormatRequests(rows.key))
       /\ SeqToSet(rows.rules) = RulesOfBuild(rows.key, out.n)

\* a completed build on a sheet that held the chart and the rules of an earlier
\* build and a chart placed by hand
C23_Witness ==
    /\ domain = "sheet" /\ pc = "built"
    /\ out.n > 1
    /\ Len(out.before.charts) = 2
    /\ \E k \in DOMAIN out.before.charts : out.before.charts[k].by = "build"
    /\ \E k \in DOMAIN out.before.rules :
          out.before.rules[k].build > 0 /\ out.before.rules[k].build < out.n

\* C26: clear_sheet, called on a sheet with c charts and n conditional-format
\* rules, sends one delete request per chart and n delete requests for rule
\* index 0; the batch is not refused and leaves the sheet with no chart and no
\* conditional-format rule.
C26_ClearSheetRemovesAll ==
    /\ domain = "sheet" /\ pc = "cleanup" =>
          LET Emptied(after) ==
                  /\ after # None
                  /\ Val(after).charts = <<>>
                  /\ Val(after).rules = <<>>
          IN  Emptied(ApplyBatch(rows, cleanup_reqs(Val(out.meta))))
    /\ domain = "sheet" /\ pc = "values" =>
          LET c == Len(out.before.charts)
              n == Len(out.before.rules)
          IN  /\ rows.charts = <<>>
              /\ rows.rules = <<>>
              /\ Len(out.cleanup) = c + n
              /\ \A k \in 1..c :
                    /\ out.cleanup[k].op = "deleteEmbeddedObject"
                    /\ out.cleanup[k].objectId = out.before.charts[k]
              /\ \A k \in (c + 1)..(c + n) :
                    /\ out.cleanup[k].op = "deleteConditionalFormatRule"
                    /\ out.cleanup[k].index = 0

\* clear_sheet has emptied a sheet that held three charts and five rules
C26_Witness ==
    /\ domain = "sheet" /\ pc = "values"
    /\ Len(out.before.charts) = 3
    /\ Len(out.before.rules) = 5
    /\ Len(out.cleanup) = 8
    /\ rows.charts = <<>> /\ rows.rules = <<>>


(***************************************************************************)
(* Sign and colour in the competitor reports.                              *)
(***************************************************************************)
\* every rule for numbers above zero has colour above, every rule for numbers
\* below zero has colour below, and there are rules of both kinds
RulesColour(rules, above, below) ==
    /\ \E k \in DOMAIN rules : rules[k].type = "NUMBER_GREATER"
    /\ \E k \in DOMAIN rules : rules[k].type = "NUMBER_LESS"
    /\ \A k \in DOMAIN rules :
          /\ rules[k].type = "NUMBER_GREATER" => rules[k].color = above
          /\ rules[k].type = "NUMBER_LESS" => rules[k].color = below

\* C24: each domain keeps its own sign-to-colour mapping: the competitor-selling
\* report shows a positive differential red and a negative one green, in the
\* table rules and in the summary card; the competitor-buying report shows a
\* negative differential red and a positive one green.
C24_ColourPerDomain ==
    /\ Done("selling") /\ out.summary # None =>
          /\ RulesColour(out.rules, "RED", "GREEN")
          /\ Val(Val(out.summary).premium_pct) > 0 => out.card_color = Some("RED")
          /\ Val(Val(out.summary).premium_pct) < 0 => out.card_color = Some("GREEN")
    /\ Done("buying") /\ out.summary # None =>
          /\ RulesColour(out.rules, "GREEN", "RED")
          /\ Val(Val(out.summary).diff_pct) < 0 => out.card_color = Some("RED")
          /\ Val(Val(out.summary).diff_pct) > 0 => out.card_color = Some("GREEN")

\* a competitor-selling report with Pullus priced above the market: a red card
C24_Witness ==
    /\ Done("selling") /\ out.summary # None
    /\ Val(Val(out.summary).premium_pct) > 0
    /\ out.card_color = Some("RED")
    /\ Len(out.rules) = 4


(***************************************************************************)
(* The order of the date formats.                                          *)
(***************************************************************************)
\* the text is two digits, a slash, two digits, a slash and four digits
SlashText(t) ==
    /\ Len(t) = 10 /\ t[3] = "/" /\ t[6] = "/"
    /\ AllDigits(SubSeq(t, 1, 2)) /\ AllDigits(SubSeq(t, 4, 5)) /\ AllDigits(SubSeq(t, 7, 10))

\* the reading of 'a/b/yyyy': month a and day b, and day a and month b only
\* when month a, day b is no date
SlashReading(a, b, y) ==
    IF ValidDate(y, a, b) THEN Some(DateOf(y, a, b))
    ELSE IF ValidDate(y, b, a) THEN Some(DateOf(y, b, a))
    ELSE None

\* the indices of the formats that parse the text
Parsing(text) == {k \in DOMAIN DateFormats : strptime(Strip(text), DateFormats[k]) # None}

\* C25: parse_date returns the parse of the first format, in the order of the
\* list, that parses the text; the month-first numeric pattern comes before the
\* day-first one, so 'a/b/yyyy' is read as month a, day b, and as day a, month b
\* only when month a, day b is not a valid date.
C25_FirstFormatWins ==
    Done("date") =>
       \A i \in DOMAIN rows :
          IsStr(rows[i].cell) =>
             LET text == rows[i].cell
                 ks == Parsing(text)
             IN  /\ ks = {} => out.dates[i] = None
                 /\ ks # {} =>
                       out.dates[i] =
                          strptime(Strip(text),
                                   DateFormats[CHOOSE k \in ks : \A j \in ks : k <= j])
                 /\ SlashText(text) =>
                       out.dates[i] = SlashReading(Num(SubSeq(text, 1, 2)),
                                                   Num(SubSeq(text, 4, 5)),
                                                   Num(SubSeq(text, 7, 10)))

\* 13 January 2025 written month first and day first: '01/13/2025' is read month
\* first, '13/01/2025' day first, as 13 is no month
C25_Witness ==
    /\ Done("date")
    /\ Len(rows) = 2
    /\ rows[1].cell = <<"0", "1", "/", "1", "3", "/", "2", "0", "2", "5">>
    /\ rows[2].cell = <<"1", "3", "/", "0", "1", "/", "2", "0", "2", "5">>
    /\ out.dates = <<Some(20250113), Some(20250113)>>

\* 6 January 2025 written day first, '06/01/2025', is read as 1 June 2025
C25_MonthFirstRead ==
    /\ Done("date")
    /\ \E i \in DOMAIN rows :
          /\ rows[i].cell = <<"0", "6", "/", "0", "1", "/", "2", "0", "2", "5">>
          /\ out.dates[i] = Some(20250601)


(***************************************************************************)
(* The table of competitor buying.                                         *)
(***************************************************************************)
\* the number of times x occurs in s
Count(s, x) == Cardinality({k \in DOMAIN s : s[k] = x})

\* C27: the competitor-buying table lists every Dressed Birds record in ascending
\* date order before any Live Birds record (also in ascending date order), so
\* the chart's source range of the header row plus dressed_count rows covers
\* exactly the Dressed Birds rows; records of any other product type are counted
\* in total_entries but appear in no table row.
C27_DressedRowsFirst ==
    Done("buying") /\ out.table # None =>
       LET v == Val(out.table).all_values
           first == Val(out.table).chart_first + 1
           last == Val(out.table).chart_last
           recs == out.buying_records
           body == {k \in DOMAIN v : v[k].kind = "record"}
       IN  /\ \A k \in body :
                 Val(v[k].record).product_type \in {T_Dressed_Birds, T_Live_Birds}
           /\ \A k \in DOMAIN recs :
                 Count([j \in DOMAIN v |-> v[j].record], Some(recs[k]))
                    = IF recs[k].product_type \in {T_Dressed_Birds, T_Live_Birds}
                      THEN Count(recs, recs[k]) ELSE 0
           /\ \A j, k \in body :
                 j < k =>
                    /\ Val(v[j].record).product_type = T_Live_Birds
                          => Val(v[k].record).product_type = T_Live_Birds
                    /\ Val(v[j].record).product_type = Val(v[k].record).product_type
                          => Val(v[j].record).date <= Val(v[k].record).date
           /\ last <= Len(v)
           /\ v[first].kind = "header"
           /\ \A k \in DOMAIN v :
                 (k > first /\ k <= last)
                    <=> (v[k].kind = "record"
                          /\ Val(v[k].record).product_type = T_Dressed_Birds)
           /\ Val(out.summary).total_entries = Len(recs)

\* a sheet with a Live Birds row, a later Dressed Birds row and a row of another
\* product: the table holds the Dressed Birds row, then the Live Birds row
C27_Witness ==
    /\ Done("buying") /\ out.table # None
    /\ Len(out.buying_records) = 3
    /\ out.buying_records[1].product_type = T_Live_Birds
    /\ out.buying_records[2].product_type = T_Dressed_Birds
    /\ out.buying_records[2].date > out.buying_records[1].date
    /\ out.buying_records[3].product_type \notin {T_Dressed_Birds, T_Live_Birds}
    /\ Len(Val(out.table).all_values) = TABLE_START + 3
    /\ Val(out.table).all_values[TABLE_START + 2].record = Some(out.buying_records[2])
    /\ Val(out.table).all_values[TABLE_START + 3].record = Some(out.buying_records[1])
    /\ Val(out.table).chart_last = TABLE_START + 2


\* two Dressed Birds rows entered with the later date first are listed by date
C27_OutOfOrderSorted ==
    /\ Done("buying") /\ out.table # None
    /\ \E j, k \in DOMAIN out.buying_records :
          /\ j < k
          /\ out.buying_records[j].product_type = T_Dressed_Birds
          /\ out.buying_records[k].product_type = T_Dressed_Birds
          /\ out.buying_records[j].date > out.buying_records[k].date


(***************************************************************************)
(* The persisted hashes.                                                   *)
(***************************************************************************)
\* C28: the persisted hash mapping changes only in the last step of an
\* unattended run in which all four domains were processed without error; an
\* interactive run and a run that fails part-way leave it unchanged; after that
\* step it maps each of the four domain keys to the hash of the data fetched in
\* that run, including domains that were skipped as unchanged or whose build was
\* skipped for empty data.
C28_HashesSavedLast ==
    InRun =>
       LET r == Val(run)
       IN  /\ pc # "exited" => hash_file = r.stored
           /\ pc = "exited" /\ ~r.is_ci => hash_file = r.stored
           /\ pc = "exited" /\ r.is_ci =>
                 /\ \A j \in DOMAIN r.calls : r.calls[j].ok
                 /\ [j \in DOMAIN FetchCalls |-> FetchCalls[j].key] = Keys
                 /\ DOMAIN r.fetched = KeySet
                 /\ DOMAIN hash_file = KeySet
                 /\ \A key \in KeySet : hash_file[key] = compute_hash(r.fetched[key])

\* an unattended run has saved hashes other than the ones it found, with a
\* domain skipped as unchanged, one whose data aggregated to nothing and one
\* whose report was built
C28_Witness ==
    /\ InRun /\ pc = "exited" /\ Val(run).is_ci
    /\ hash_file # Val(run).stored
    /\ Val(run).skipped # {}
    /\ \E key \in KeySet : AggregatesToNothing(key)
    /\ BuiltKeys # {}


(***************************************************************************)
(* DOC price: the rows a week is made of.                                  *)
(***************************************************************************)
\* the supplier prices greater than zero of a row of the DOC price sheet
PositiveCells(row) ==
    {v \in {safe_float(row.prices[k]) : k \in DOMAIN row.prices} : v > 0}

\* the row has a date of the current year and a supplier price greater than zero
Contributes(row) ==
    Kept(parse_date(row.date), current_year) /\ PositiveCells(row) # {}

\* the rows of the sheet that contribute to the week of key
RowsOfWeek(key) ==
    {i \in DOMAIN rows :
        Contributes(rows[i]) /\ isocalendar(Val(parse_date(rows[i].date))) = key}

\* C29: in aggregate_weekly_prices a row contributes to its week only if it has
\* at least one supplier price greater than zero: a current-year row without any
\* positive price is not counted in entries and does not affect start, end or
\* any price field, non-positive or unparseable supplier cells never enter an
\* average, minimum or maximum, and every output week has entries >= 1 and
\* min_price <= max_price.
C29_OnlyPricedRowsCount ==
    Done("doc") =>
       LET weeks == out.price_weeks
           Dates(key) == {Val(parse_date(rows[i].date)) : i \in RowsOfWeek(key)}
           Cells(key) == UNION {PositiveCells(rows[i]) : i \in RowsOfWeek(key)}
           Least(S) == CHOOSE x \in S : \A y \in S : x <= y
           Greatest(S) == CHOOSE x \in S : \A y \in S : x >= y
       IN  /\ {<<weeks[j].year, weeks[j].week>> : j \in DOMAIN weeks}
                 = {isocalendar(Val(parse_date(rows[i].date))) :
                       i \in {n \in DOMAIN rows : Contributes(rows[n])}}
           /\ \A j \in DOMAIN weeks :
                 LET key == <<weeks[j].year, weeks[j].week>>
                 IN  /\ weeks[j].entries = Cardinality(RowsOfWeek(key))
                     /\ weeks[j].entries >= 1
                     /\ weeks[j].start = Least(Dates(key))
                     /\ weeks[j].end = Greatest(Dates(key))
                     /\ weeks[j].min_price = Least(Cells(key))
                     /\ weeks[j].max_price = Greatest(Cells(key))
                     /\ weeks[j].min_price <= weeks[j].max_price
           /\ weeks = aggregate_weekly_prices(SelectSeq(rows, Contributes), current_year)

\* a week of two priced rows, the sheet holding a later row of the same week
\* whose supplier cells are negative and zero: the week ends at the second
\* priced row and has two entries
C29_Witness ==
    /\ Done("doc")
    /\ Len(rows) = 3
    /\ Contributes(rows[1]) /\ Contributes(rows[3]) /\ ~Contributes(rows[2])
    /\ Kept(parse_date(rows[2].date), current_year)
    /\ \E k \in DOMAIN rows[2].prices : safe_float(rows[2].prices[k]) < 0
    /\ Len(out.price_weeks) = 1
    /\ out.price_weeks[1].entries = 2
    /\ isocalendar(Val(parse_date(rows[2].date)))
          = <<out.price_weeks[1].year, out.price_weeks[1].week>>
    /\ out.price_weeks[1].end < Val(parse_date(rows[2].date))

\* a priced row with a supplier cell that is no number
C29_UnparseableCell ==
    /\ Done("doc")
    /\ \E i \in DOMAIN rows :
          /\ Contributes(rows[i])
          /\ \E k \in DOMAIN rows[i].prices :
                ~Float(Strip(Remove(PyStr(rows[i].prices[k]), ","))).ok
                   /\ rows[i].prices[k] # <<>>


(***************************************************************************)
(* Competitor selling: the competitor brands of a bucket.                  *)
(***************************************************************************)
\* the records of a bucket that hold a present price
PricedRecords(records, date, location) ==
    {n \in DOMAIN records :
        /\ records[n].date = date /\ records[n].location = location
        /\ \E p \in ProductSet : records[n].price[p] # None}

\* C30: in aggregate_by_date_location, comp_brands of a bucket equals the number
\* of distinct brand names among the non-Pullus records of that (date, location)
\* that have at least one present product price; a brand that occurs in several
\* records counts once, and a bucket exists in the output only if at least one
\* record of its key has a present price.
C30_DistinctCompetitorBrands ==
    Done("selling") =>
       LET recs == out.comp_records
           agg == out.comp_aggregated
       IN  /\ \A i \in DOMAIN agg :
                 /\ agg[i].comp_brands
                       = Cardinality({recs[n].brand :
                                        n \in {m \in PricedRecords(recs, agg[i].date,
                                                                    agg[i].location) :
                                                 Lower(recs[m].brand) # T_pullus}})
                 /\ PricedRecords(recs, agg[i].date, agg[i].location) # {}
           /\ \A n \in DOMAIN recs :
                 PricedRecords(recs, recs[n].date, recs[n].location) # {}
                    => \E i \in DOMAIN agg :
                          agg[i].date = recs[n].date /\ agg[i].location = recs[n].location
           /\ \A i, j \in DOMAIN agg :
                 agg[i].date = agg[j].date /\ agg[i].location = agg[j].location => i = j

\* a bucket of three priced competitor records of two brands, counted as two
\* brands, next to records without a price whose key has no bucket
C30_Witness ==
    /\ Done("selling")
    /\ \E i \in DOMAIN out.comp_aggregated :
          LET g == out.comp_aggregated[i]
              own == PricedRecords(out.comp_records, g.date, g.location)
          IN  /\ g.comp_brands = 2
              /\ Cardinality(own) = 3
              /\ \A n \in own : Lower(out.comp_records[n].brand) # T_pullus

\* a record without a present price whose key has no bucket
C30_NoBucketWithoutPrice ==
    /\ Done("selling")
    /\ \E n \in DOMAIN out.comp_records :
          /\ PricedRecords(out.comp_records, out.comp_records[n].date,
                            out.comp_records[n].location) = {}
          /\ \A i \in DOMAIN out.comp_aggregated :
                ~(out.comp_aggregated[i].date = out.comp_records[n].date
                    /\ out.comp_aggregated[i].location = out.comp_records[n].location)


====
